---- MODULE Spec2Model ----
(***************************************************************************)
(* Privacy-preserving health-data ledger: the shard circuit, the native    *)
(* shard evaluator, the Groth16 orchestration and the dataset-generation   *)
(* pipeline.                                                               *)
(*                                                                         *)
(* The arkworks primitives the repository calls are modelled by their      *)
(* contracts:                                                              *)
(*  - a field element is either the image of a small unsigned integer      *)
(*    (Fr::from(u64)) or the output of a Poseidon squeeze;                 *)
(*  - the Poseidon sponge keeps arkworks' structure (rate 2, elements are  *)
(*    added into the rate part, a permutation when the rate part is full   *)
(*    and before a squeeze, no padding); the permutation is ideal, so two  *)
(*    squeezes agree exactly when the sponge states agree;                 *)
(*  - Groth16 is ideal: a proof verifies exactly when it was made with the *)
(*    matching key from a witness that satisfies every constraint, for the *)
(*    instance presented to the verifier.                                  *)
(***************************************************************************)
EXTENDS Integers, Sequences, FiniteSets, TLC

VARIABLES
    records,      \* harness: the record list handed to the zk layer
    native,       \* harness: result of compute_shard_commitment_and_stats
    proved,       \* harness: result of prove_shard
    presented,    \* harness: the public inputs handed to the verifier
    synth,        \* harness: result of HealthShardCircuit::generate_constraints
    verdict,      \* harness: result of verify_shard_proof
    zpc,          \* harness: position of the harness
    probe,        \* bucket probe: an age and its classification
    agg,          \* aggregator harness: two sequences of shard commitments
    datasets,     \* store: table datasets, by dataset id
    shards,       \* store: table shards, by <<dataset id, shard index>>
    tasks,        \* the generation task of each dataset: position and locals
    keys,         \* AppState.keys: the initialize-once cell
    response,     \* the answer of the handler that made the last step
    disk,         \* data_dir/keys: the proving-key file and the verifying-key file
    proc,         \* the callers of ensure_keys in the running process
    gadget        \* the gadget harness: inputs and outputs of one gadget evaluation

zkVars == <<records, native, proved, presented, synth, verdict, zpc>>
pipeVars == <<datasets, shards, tasks, keys, response, disk, proc>>
vars == <<records, native, proved, presented, synth, verdict, zpc, probe, agg,
          datasets, shards, tasks, keys, response, disk, proc, gadget>>

-----------------------------------------------------------------------------
(* Bounds of the model *)

\* Records per shard (the const generic N; the backend instantiates it with
\* DEFAULT_SHARD_SIZE = 1000, the model scales it down).
N == 2

-----------------------------------------------------------------------------
(* constants.rs *)

NUM_BUCKETS == 6

POSEIDON_RATE == 2

U8Bits == 8

U16Bits == 16

Buckets == 0 .. (NUM_BUCKETS - 1)

\* A bucket table with an overlap at age 18 (used to mutate AGE_BUCKETS).
AGE_BUCKETS_Overlap ==
    [b \in Buckets |->
        << <<0, 18>>, <<18, 29>>, <<30, 39>>, <<40, 49>>, <<50, 64>>, <<65, 120>> >>[b + 1]]

AGE_BUCKETS ==
    [b \in Buckets |->
        << <<0, 17>>, <<18, 29>>, <<30, 39>>, <<40, 49>>, <<50, 64>>, <<65, 120>> >>[b + 1]]

-----------------------------------------------------------------------------
(* Field elements and the Poseidon sponge (ark-crypto-primitives) *)

\* Fr::from(n) for an unsigned integer n.
FrFrom(n) == [k |-> "u64", n |-> n, pre |-> <<>>]

FrZero == FrFrom(0)

\* PoseidonSponge::new: empty rate part, nothing permuted yet.
PoseidonNew ==
    [blocks |-> <<>>, cur |-> [i \in 1 .. POSEIDON_RATE |-> FrZero], idx |-> 0]

\* Absorb one element: permute first when the rate part is full, then add the
\* element into the next rate cell (the cell holds zero, so the sum is e).
PoseidonAbsorb1(s, e) ==
    LET t == IF s.idx = POSEIDON_RATE
             THEN [blocks |-> Append(s.blocks, s.cur),
                   cur |-> [i \in 1 .. POSEIDON_RATE |-> FrZero],
                   idx |-> 0]
             ELSE s
    IN [t EXCEPT !.cur[t.idx + 1] = e, !.idx = t.idx + 1]

RECURSIVE PoseidonAbsorb(_, _)
PoseidonAbsorb(s, elems) ==
    IF elems = <<>> THEN s
    ELSE PoseidonAbsorb(PoseidonAbsorb1(s, Head(elems)), Tail(elems))

\* squeeze_field_elements(1)[0]: permute, output the first rate element.
PoseidonSqueeze(s) == [k |-> "poseidon", n |-> 0, pre |-> Append(s.blocks, s.cur)]

-----------------------------------------------------------------------------
(* types.rs *)

ZeroStats ==
    [sum_glucose_by_bucket |-> [b \in Buckets |-> 0],
     count_by_bucket |-> [b \in Buckets |-> 0]]

\* The scan falling back to the first bucket (used to mutate BucketScan).
BucketScan_FirstOnMiss(age, i) ==
    IF \E b \in Buckets : age >= AGE_BUCKETS[b][1] /\ age <= AGE_BUCKETS[b][2]
    THEN CHOOSE b \in Buckets : age >= AGE_BUCKETS[b][1] /\ age <= AGE_BUCKETS[b][2]
    ELSE 0

RECURSIVE BucketScan(_, _)
BucketScan(age, i) ==
    IF i >= NUM_BUCKETS THEN NUM_BUCKETS - 1
    ELSE IF age >= AGE_BUCKETS[i][1] /\ age <= AGE_BUCKETS[i][2] THEN i
    ELSE BucketScan(age, i + 1)

bucket_for_age(age) == BucketScan(age, 0)

-----------------------------------------------------------------------------
(* circuit.rs: gadgets.  A bit list is a function from 0..n-1 to BOOLEAN,    *)
(* least significant bit first.                                            *)

Pow2(i) == 2 ^ i

\* v.to_bits_le()[..n]
ToBitsLe(v, n) == [i \in 0 .. (n - 1) |-> (v \div Pow2(i)) % 2 = 1]

RECURSIVE BitsLoop(_, _, _, _, _)
BitsLoop(bits, n, i, acc, coeff) ==
    IF i >= n THEN acc
    ELSE BitsLoop(bits, n, i + 1, acc + (IF bits[i] THEN coeff ELSE 0), coeff + coeff)

bits_le_to_fp(bits, n) == BitsLoop(bits, n, 0, 0, 1)

\* constrain_u8 without its reconstruction constraint (used to mutate
\* constrain_u8).
constrain_u8_Unchecked(v) == [bits |-> ToBitsLe(v, U8Bits), ok |-> TRUE]

\* The bits returned and whether the reconstruction constraint holds.
constrain_u8(v) ==
    LET bits8 == ToBitsLe(v, U8Bits)
    IN [bits |-> bits8, ok |-> bits_le_to_fp(bits8, U8Bits) = v]

constrain_u16(v) ==
    LET bits16 == ToBitsLe(v, U16Bits)
    IN [bits |-> bits16, ok |-> bits_le_to_fp(bits16, U16Bits) = v]

\* The comparison returning `less` alone (used to mutate LeqLoop).
RECURSIVE LeqLoop_Strict(_, _, _, _, _)
LeqLoop_Strict(a, c, i, less, equal) ==
    IF i < 0 THEN less
    ELSE LET c_i == (c \div Pow2(i)) % 2 = 1
             less2 == IF c_i THEN less \/ (equal /\ ~a[i]) ELSE less
             a_eq_ci == IF c_i THEN a[i] ELSE ~a[i]
         IN LeqLoop_Strict(a, c, i - 1, less2, equal /\ a_eq_ci)

RECURSIVE LeqLoop(_, _, _, _, _)
LeqLoop(a, c, i, less, equal) ==
    IF i < 0 THEN less \/ equal
    ELSE LET c_i == (c \div Pow2(i)) % 2 = 1
             less2 == IF c_i THEN less \/ (equal /\ ~a[i]) ELSE less
             a_eq_ci == IF c_i THEN a[i] ELSE ~a[i]
         IN LeqLoop(a, c, i - 1, less2, equal /\ a_eq_ci)

leq_const_u8(a_bits_le, c) == LeqLoop(a_bits_le, c, U8Bits - 1, FALSE, TRUE)

geq_const_u8(a_bits_le, c) ==
    IF c = 0 THEN TRUE ELSE ~leq_const_u8(a_bits_le, c - 1)

\* How geq_const_u8 gets its result: whether it is Boolean::constant, and
\* the constants it calls leq_const_u8 with.
geq_const_u8_path(c) ==
    IF c = 0 THEN [constant |-> TRUE, leq_calls |-> <<>>]
    ELSE [constant |-> FALSE, leq_calls |-> <<c - 1>>]

\* The range test without its upper bound (used to mutate in_range_u8).
in_range_u8_NoUpper(a_bits_le, min, max) == geq_const_u8(a_bits_le, min)

in_range_u8(a_bits_le, min, max) ==
    geq_const_u8(a_bits_le, min) /\ leq_const_u8(a_bits_le, max)

-----------------------------------------------------------------------------
(* groth16.rs: the native shard evaluator *)

Record(age, glucose) == [age |-> age, blood_glucose_mg_dl |-> glucose]

\* One iteration of the loop, with the stats update dropped for the count
\* (used to mutate NativeStep).
NativeStep_NoCount(acc, r) ==
    LET b == bucket_for_age(r.age)
    IN [sponge |-> PoseidonAbsorb(acc.sponge,
                                  <<FrFrom(r.age), FrFrom(r.blood_glucose_mg_dl)>>),
        stats |-> [acc.stats EXCEPT
                     !.sum_glucose_by_bucket[b] = @ + r.blood_glucose_mg_dl]]

\* One iteration of the loop, absorbing the value before the age (used to
\* mutate NativeStep).
NativeStep_Swapped(acc, r) ==
    LET b == bucket_for_age(r.age)
    IN [sponge |-> PoseidonAbsorb(acc.sponge,
                                  <<FrFrom(r.blood_glucose_mg_dl), FrFrom(r.age)>>),
        stats |-> [acc.stats EXCEPT
                     !.sum_glucose_by_bucket[b] = @ + r.blood_glucose_mg_dl,
                     !.count_by_bucket[b] = @ + 1]]

\* One iteration of `for r in records`.
NativeStep(acc, r) ==
    LET b == bucket_for_age(r.age)
    IN [sponge |-> PoseidonAbsorb(acc.sponge,
                                  <<FrFrom(r.age), FrFrom(r.blood_glucose_mg_dl)>>),
        stats |-> [acc.stats EXCEPT
                     !.sum_glucose_by_bucket[b] = @ + r.blood_glucose_mg_dl,
                     !.count_by_bucket[b] = @ + 1]]

RECURSIVE NativeLoop(_, _, _)
NativeLoop(recs, k, acc) ==
    IF k > Len(recs) THEN acc
    ELSE NativeLoop(recs, k + 1, NativeStep(acc, recs[k]))

\* The length check of compute_shard_commitment_and_stats, accepting a list
\* that is one record short (used to mutate ShardSizeOk).
ShardSizeOk_OffByOne(len) == len = N \/ len + 1 = N

\* records.len() == N
ShardSizeOk(len) == len = N

compute_shard_commitment_and_stats(recs) ==
    IF ~ShardSizeOk(Len(recs))
    THEN [kind |-> "InvalidShardSize", expected |-> N, got |-> Len(recs)]
    ELSE LET fin == NativeLoop(recs, 1, [sponge |-> PoseidonNew, stats |-> ZeroStats])
         IN [kind |-> "Ok",
             commitment |-> PoseidonSqueeze(fin.sponge),
             stats |-> fin.stats]

\* The codec with the counts pushed before the sums (used to mutate
\* shard_public_inputs_to_field_elems).
shard_public_inputs_CountsFirst(commitment, stats) ==
    <<commitment>>
        \o [i \in 1 .. NUM_BUCKETS |-> FrFrom(stats.count_by_bucket[i - 1])]
        \o [i \in 1 .. NUM_BUCKETS |-> FrFrom(stats.sum_glucose_by_bucket[i - 1])]

shard_public_inputs_to_field_elems(commitment, stats) ==
    <<commitment>>
        \o [i \in 1 .. NUM_BUCKETS |-> FrFrom(stats.sum_glucose_by_bucket[i - 1])]
        \o [i \in 1 .. NUM_BUCKETS |-> FrFrom(stats.count_by_bucket[i - 1])]

-----------------------------------------------------------------------------
(* circuit.rs: HealthShardCircuit *)

HealthShardCircuit(recs, commitment, stats) ==
    [records |-> recs,
     public_shard_commitment |-> commitment,
     public_sum_glucose_by_bucket |-> stats.sum_glucose_by_bucket,
     public_count_by_bucket |-> stats.count_by_bucket]

\* The new_input calls, in the order the circuit makes them: the instance
\* assignment of the constraint system.
AllocatedInputs(c) ==
    <<c.public_shard_commitment>>
        \o [i \in 1 .. NUM_BUCKETS |-> FrFrom(c.public_sum_glucose_by_bucket[i - 1])]
        \o [i \in 1 .. NUM_BUCKETS |-> FrFrom(c.public_count_by_bucket[i - 1])]

\* The membership booleans of one record, one per bucket.
InBucket(age_bits) ==
    [b \in Buckets |-> in_range_u8(age_bits, AGE_BUCKETS[b][1], AGE_BUCKETS[b][2])]

\* One iteration of `for rec in self.records`: the witness values of the
\* running aggregates and whether the iteration's constraints hold.
CircuitStep(acc, rec) ==
    LET age == rec.age
        glucose == rec.blood_glucose_mg_dl
        a8 == constrain_u8(age)
        g16 == constrain_u16(glucose)
        in_b == InBucket(a8.bits)
        in_any_bucket == \E b \in Buckets : in_b[b]
    IN [sponge |-> PoseidonAbsorb(acc.sponge, <<FrFrom(age), FrFrom(glucose)>>),
        sum_vars |-> [b \in Buckets |->
                        acc.sum_vars[b] + (IF in_b[b] THEN glucose ELSE 0)],
        count_vars |-> [b \in Buckets |->
                        acc.count_vars[b] + (IF in_b[b] THEN 1 ELSE 0)],
        ok |-> acc.ok /\ a8.ok /\ g16.ok /\ in_any_bucket]

RECURSIVE CircuitLoop(_, _, _)
CircuitLoop(recs, k, acc) ==
    IF k > Len(recs) THEN acc
    ELSE CircuitLoop(recs, k + 1, CircuitStep(acc, recs[k]))

\* The aggregate check with the counts left unconstrained (used to mutate
\* AggregateCheck).
AggregateCheck_SumsOnly(sum_vars, count_vars, public_sums, public_counts) ==
    \A i \in Buckets : FrFrom(sum_vars[i]) = public_sums[i]

\* sum_vars[i].enforce_equal(&public_sums[i]) and
\* count_vars[i].enforce_equal(&public_counts[i]) for every bucket.
AggregateCheck(sum_vars, count_vars, public_sums, public_counts) ==
    \A i \in Buckets :
        /\ FrFrom(sum_vars[i]) = public_sums[i]
        /\ FrFrom(count_vars[i]) = public_counts[i]

\* generate_constraints in proving mode.  result is what the function
\* returns; satisfied tells whether the witness satisfies every constraint
\* that was enforced (enforce_equal on variables records a constraint, it
\* does not fail).
generate_constraints(c) ==
    LET inputs == AllocatedInputs(c)
        public_commitment == inputs[1]
        public_sums == [i \in Buckets |-> inputs[2 + i]]
        public_counts == [i \in Buckets |-> inputs[2 + NUM_BUCKETS + i]]
    IN IF Len(c.records) # N
       THEN [result |-> "Unsatisfiable", inputs |-> inputs, satisfied |-> FALSE,
             commitment |-> FrZero]
       ELSE LET fin == CircuitLoop(c.records, 1,
                           [sponge |-> PoseidonNew,
                            sum_vars |-> [b \in Buckets |-> 0],
                            count_vars |-> [b \in Buckets |-> 0],
                            ok |-> TRUE])
                commitment == PoseidonSqueeze(fin.sponge)
            IN [result |-> "Ok",
                inputs |-> inputs,
                satisfied |->
                    /\ fin.ok
                    /\ commitment = public_commitment
                    /\ AggregateCheck(fin.sum_vars, fin.count_vars,
                                      public_sums, public_counts),
                commitment |-> commitment]

-----------------------------------------------------------------------------
(* groth16.rs: keys, prover, verifier (ark-groth16 as an ideal proof system) *)

Builds == {"debug", "release"}

\* generate_random_parameters_with_reduction: the key pair carries the setup
\* randomness that made it.
setup_keys(rng) ==
    LET dummy_records == [i \in 1 .. N |-> Record(0, 0)]
        cs == compute_shard_commitment_and_stats(dummy_records)
    IN IF cs.kind # "Ok" THEN cs
       ELSE [kind |-> "Ok", pk |-> [setup |-> rng], vk |-> [setup |-> rng]]

\* create_random_proof_with_reduction: synthesis errors are returned; the
\* prover asserts satisfaction in debug builds only, and in a release build
\* turns an unsatisfying witness into a proof that cannot verify.
Groth16Prove(circuit, pk, build) ==
    LET cs == generate_constraints(circuit)
    IN IF cs.result # "Ok" THEN [kind |-> "Err", msg |-> cs.result]
       ELSE IF ~cs.satisfied /\ build = "debug" THEN [kind |-> "Panic"]
       ELSE [kind |-> "Ok",
             proof |-> [setup |-> pk.setup, inputs |-> cs.inputs, sat |-> cs.satisfied]]

\* verify_proof: an error when the vector does not fit the key, else the
\* pairing check.
Groth16Verify(vk, proof, public_inputs) ==
    IF Len(public_inputs) # 1 + 2 * NUM_BUCKETS
    THEN [kind |-> "Err", ok |-> FALSE]
    ELSE [kind |-> "Ok",
          ok |-> proof.sat /\ proof.setup = vk.setup /\ proof.inputs = public_inputs]

prove_shard(pk, recs, build) ==
    IF Len(recs) # N
    THEN [kind |-> "InvalidShardSize", expected |-> N, got |-> Len(recs)]
    ELSE LET cs == compute_shard_commitment_and_stats(recs)
         IN IF cs.kind # "Ok" THEN cs
            ELSE LET circuit == HealthShardCircuit(recs, cs.commitment, cs.stats)
                     pr == Groth16Prove(circuit, pk, build)
                 IN IF pr.kind = "Err" THEN [kind |-> "Ark", msg |-> pr.msg]
                    ELSE IF pr.kind = "Panic" THEN [kind |-> "Panic"]
                    ELSE [kind |-> "Ok", proof |-> pr.proof,
                          commitment |-> cs.commitment, stats |-> cs.stats]

verify_shard_proof(vk, proof, commitment, stats) ==
    LET public_inputs == shard_public_inputs_to_field_elems(commitment, stats)
        res == Groth16Verify(vk, proof, public_inputs)
    IN IF res.kind = "Err" THEN "Ark"
       ELSE IF ~res.ok THEN "VerificationFailed"
       ELSE "Ok"

-----------------------------------------------------------------------------
(* Harness of the zk layer: one record list is evaluated natively, proved,   *)
(* its circuit synthesized against the public inputs handed to the         *)
(* verifier, and the proof verified against them.                          *)

U8Max == 255

RecordSamples ==
    { Record(0, 0), Record(17, 65535), Record(18, 70), Record(39, 180),
      Record(40, 111), Record(64, 1), Record(120, 65535),
      Record(121, 70), Record(U8Max, 65535) }

RecordLists == UNION { [1 .. n -> RecordSamples] : n \in 0 .. (N + 1) }

NoResult == [kind |-> "None"]

\* The probe of the bucket table: a record of the probed age behind the
\* records of `prior`, what the circuit and the native evaluator make of it.
IdleProbe ==
    [pc |-> "idle", age |-> 0, value |-> 0, prior |-> <<>>,
     in_b |-> [b \in Buckets |-> FALSE],
     native_b |-> 0, exhaustive |-> FALSE,
     native_stats |-> ZeroStats,
     sum_vars |-> [b \in Buckets |-> 0],
     count_vars |-> [b \in Buckets |-> 0]]

IdleGadget ==
    [pc |-> "idle", a |-> 0, c |-> 0, v |-> 0,
     leq |-> FALSE, geq |-> FALSE,
     geq_path |-> [constant |-> FALSE, leq_calls |-> <<>>],
     u8 |-> [bits |-> <<>>, ok |-> FALSE],
     u16 |-> [bits |-> <<>>, ok |-> FALSE],
     fp8 |-> 0, fp16 |-> 0]

\* The records before the probed one: none, or one with an age in [0,120].
ProbePriors == { <<>>, <<Record(18, 70)>>, <<Record(120, 65535)>> }

\* The blood_glucose_mg_dl of the probed record.
ProbeValues == { 70, 65535 }

HarnessKeys == setup_keys(1)

Reverse(s) == [i \in 1 .. Len(s) |-> s[Len(s) + 1 - i]]

\* What prove_shard returned, as the public inputs of the proof.
Returned(p) == [commitment |-> p.commitment, stats |-> p.stats]

\* Other values for one counter.
OtherCounter(v) == {v + 1} \cup (IF v > 0 THEN {0, v - 1} ELSE {})

\* Other field elements for the commitment.
OtherCommitments(recs, c) ==
    { FrZero, FrFrom(1),
      PoseidonSqueeze(PoseidonNew),
      PoseidonSqueeze(
          NativeLoop(Reverse(recs), 1,
                     [sponge |-> PoseidonNew, stats |-> ZeroStats]).sponge) } \ {c}

\* The public inputs a caller may hand to the verifier: those returned, or
\* those with one sum, one count or the commitment replaced.
Candidates(recs, p) ==
    IF p.kind # "Ok"
    THEN { [commitment |-> FrZero, stats |-> ZeroStats] }
    ELSE LET base == Returned(p)
         IN {base}
            \cup UNION { { [base EXCEPT !.stats.sum_glucose_by_bucket[i] = v] :
                             v \in OtherCounter(base.stats.sum_glucose_by_bucket[i]) } :
                         i \in Buckets }
            \cup UNION { { [base EXCEPT !.stats.count_by_bucket[i] = v] :
                             v \in OtherCounter(base.stats.count_by_bucket[i]) } :
                         i \in Buckets }
            \cup { [base EXCEPT !.commitment = c] :
                     c \in OtherCommitments(recs, base.commitment) }

EmptyTable == [k \in {} |-> NoResult]

EmptyCell == [set |-> FALSE, pk |-> NoResult, vk |-> NoResult]

IdleAgg ==
    [pc |-> "idle", a |-> <<>>, b |-> <<>>, k |-> 0,
     sponge |-> PoseidonNew, out_a |-> FrZero, out_b |-> FrZero]

\* Concurrent callers of ensure_keys in one process.
MaxCallers == 2

\* Crashes of the process, each followed by a restart.
MaxRestarts == 1

\* A key file: absent, whole, or cut short by an interrupted write; with the
\* setup whose key it holds.
Absent == [state |-> "absent", setup |-> 0]

WholeFile(setup) == [state |-> "whole", setup |-> setup]

TornFile(setup) == [state |-> "torn", setup |-> setup]

EmptyDisk == [pk |-> Absent, vk |-> Absent]

Callers == 1 .. MaxCallers

\* A caller of ensure_keys: its position, what the load-or-setup body found
\* on disk, the setup it ran, what it returned, and whether its body met an
\* I/O error.
IdleCaller ==
    [pc |-> "idle", found |-> "none", made |-> 0, result |-> NoResult, faulted |-> FALSE]

\* A process that has just started: no caller yet, the permit of the cell
\* free; restarts and setups count over the life of the data directory.
NewProc(restarts, setups) ==
    [callers |-> [c \in Callers |-> IdleCaller],
     permit |-> 0,
     completed |-> 0,
     restarts |-> restarts,
     setups |-> setups]

IdlePipe ==
    /\ datasets = EmptyTable
    /\ shards = EmptyTable
    /\ tasks = EmptyTable
    /\ keys = EmptyCell
    /\ response = NoResult
    /\ disk = EmptyDisk
    /\ proc = NewProc(0, 0)

InitZk ==
    /\ records \in RecordLists
    /\ native = NoResult
    /\ proved = NoResult
    /\ presented = NoResult
    /\ synth = NoResult
    /\ verdict = NoResult
    /\ zpc = "compute"
    /\ probe = IdleProbe
    /\ agg = IdleAgg
    /\ gadget = IdleGadget
    /\ IdlePipe

Compute ==
    /\ zpc = "compute"
    /\ native' = compute_shard_commitment_and_stats(records)
    /\ zpc' = "prove"
    /\ UNCHANGED <<records, proved, presented, synth, verdict>>
    /\ UNCHANGED <<probe, agg, disk, proc, gadget>>
    /\ UNCHANGED pipeVars

Prove ==
    /\ zpc = "prove"
    /\ \E build \in Builds : proved' = prove_shard(HarnessKeys.pk, records, build)
    /\ zpc' = "present"
    /\ UNCHANGED <<records, native, presented, synth, verdict>>
    /\ UNCHANGED <<probe, agg, disk, proc, gadget>>
    /\ UNCHANGED pipeVars

\* A panic of the prover ends the run.
Present ==
    /\ zpc = "present"
    /\ proved.kind # "Panic"
    /\ \E pub \in Candidates(records, proved) : presented' = pub
    /\ zpc' = "synth"
    /\ UNCHANGED <<records, native, proved, synth, verdict>>
    /\ UNCHANGED <<probe, agg, disk, proc, gadget>>
    /\ UNCHANGED pipeVars

Synthesize ==
    /\ zpc = "synth"
    /\ synth' = generate_constraints(
                    HealthShardCircuit(records, presented.commitment, presented.stats))
    /\ zpc' = IF proved.kind = "Ok" THEN "verify" ELSE "done"
    /\ UNCHANGED <<records, native, proved, presented, verdict>>
    /\ UNCHANGED <<probe, agg, disk, proc, gadget>>
    /\ UNCHANGED pipeVars

Verify ==
    /\ zpc = "verify"
    /\ verdict' =
          [kind |-> verify_shard_proof(HarnessKeys.vk, proved.proof,
                                       presented.commitment, presented.stats),
           public_inputs |-> shard_public_inputs_to_field_elems(
                                 presented.commitment, presented.stats)]
    /\ zpc' = "done"
    /\ UNCHANGED <<records, native, proved, presented, synth>>
    /\ UNCHANGED <<probe, agg, disk, proc, gadget>>
    /\ UNCHANGED pipeVars

NextZk == Compute \/ Prove \/ Present \/ Synthesize \/ Verify

SpecZk == InitZk /\ [][NextZk]_vars

-----------------------------------------------------------------------------
(* Probe of the bucket table: every 8-bit age is classified by the circuit's *)
(* membership gadget and by the native bucket_for_age.                     *)

IdleZk ==
    /\ records = <<>>
    /\ native = NoResult
    /\ proved = NoResult
    /\ presented = NoResult
    /\ synth = NoResult
    /\ verdict = NoResult
    /\ zpc = "idle"

InitBuckets ==
    /\ IdleZk
    /\ agg = IdleAgg
    /\ gadget = IdleGadget
    /\ IdlePipe
    /\ \E age \in 0 .. U8Max, value \in ProbeValues, prior \in ProbePriors :
          probe = [IdleProbe EXCEPT !.pc = "new", !.age = age,
                                    !.value = value, !.prior = prior]

Classify ==
    /\ probe.pc = "new"
    /\ probe' = [probe EXCEPT !.pc = "done",
                              !.in_b = InBucket(constrain_u8(probe.age).bits),
                              !.native_b = bucket_for_age(probe.age),
                              !.exhaustive =
                                  CircuitStep([sponge |-> PoseidonNew,
                                               sum_vars |-> [b \in Buckets |-> 0],
                                               count_vars |-> [b \in Buckets |-> 0],
                                               ok |-> TRUE],
                                              Record(probe.age, 0)).ok,
                              !.native_stats =
                                  NativeLoop(Append(probe.prior, Record(probe.age, probe.value)), 1,
                                             [sponge |-> PoseidonNew,
                                              stats |-> ZeroStats]).stats,
                              !.sum_vars =
                                  CircuitLoop(Append(probe.prior, Record(probe.age, probe.value)), 1,
                                              [sponge |-> PoseidonNew,
                                               sum_vars |-> [b \in Buckets |-> 0],
                                               count_vars |-> [b \in Buckets |-> 0],
                                               ok |-> TRUE]).sum_vars,
                              !.count_vars =
                                  CircuitLoop(Append(probe.prior, Record(probe.age, probe.value)), 1,
                                              [sponge |-> PoseidonNew,
                                               sum_vars |-> [b \in Buckets |-> 0],
                                               count_vars |-> [b \in Buckets |-> 0],
                                               ok |-> TRUE]).count_vars]
    /\ UNCHANGED zkVars
    /\ UNCHANGED <<agg, gadget>>
    /\ UNCHANGED pipeVars

NextBuckets == Classify

SpecBuckets == InitBuckets /\ [][NextBuckets]_vars

-----------------------------------------------------------------------------
(* Harness of the gadgets of circuit.rs: a comparison of an 8-bit value with *)
(* a constant, or the range constraints of a field element.                *)

\* The field elements handed to constrain_u8 and constrain_u16: every value
\* of 16 bits and the values of 17 bits up to 2^16 + 255.
RangeValues == 0 .. (Pow2(U16Bits) + U8Max)

InitGadgets ==
    /\ IdleZk
    /\ probe = IdleProbe
    /\ agg = IdleAgg
    /\ IdlePipe
    /\ \/ \E a \in 0 .. U8Max, c \in 0 .. U8Max :
             gadget = [IdleGadget EXCEPT !.pc = "compare", !.a = a, !.c = c]
       \/ \E v \in RangeValues :
             gadget = [IdleGadget EXCEPT !.pc = "constrain", !.v = v]

Compare ==
    /\ gadget.pc = "compare"
    /\ LET a_bits_le == ToBitsLe(gadget.a, U8Bits)
       IN gadget' = [gadget EXCEPT !.pc = "compared",
                                   !.leq = leq_const_u8(a_bits_le, gadget.c),
                                   !.geq = geq_const_u8(a_bits_le, gadget.c),
                                   !.geq_path = geq_const_u8_path(gadget.c)]
    /\ UNCHANGED zkVars
    /\ UNCHANGED <<probe, agg>>
    /\ UNCHANGED pipeVars

Constrain ==
    /\ gadget.pc = "constrain"
    /\ LET u8 == constrain_u8(gadget.v)
           u16 == constrain_u16(gadget.v)
       IN gadget' = [gadget EXCEPT !.pc = "constrained",
                                   !.u8 = u8,
                                   !.u16 = u16,
                                   !.fp8 = bits_le_to_fp(u8.bits, U8Bits),
                                   !.fp16 = bits_le_to_fp(u16.bits, U16Bits)]
    /\ UNCHANGED zkVars
    /\ UNCHANGED <<probe, agg>>
    /\ UNCHANGED pipeVars

NextGadgets == Compare \/ Constrain

SpecGadgets == InitGadgets /\ [][NextGadgets]_vars

-----------------------------------------------------------------------------
(* dataset.rs: the dataset-generation pipeline, over the store of db.rs *)

\* Datasets the API may be asked to create.
MaxDatasets == 1

\* Largest number of shards of a dataset.
MaxShards == 3

DEFAULT_SHARD_SIZE == N

DatasetIds == 1 .. MaxDatasets

\* The dataset sizes a request may carry: the multiples of the shard size up
\* to MaxShards shards, and one size that is no multiple.
DatasetSizes == { k * DEFAULT_SHARD_SIZE : k \in 0 .. MaxShards } \cup {DEFAULT_SHARD_SIZE + 1}

NULL == [kind |-> "NULL"]

\* hex::encode of the compressed bytes of a field element.
HexEncode(x) == [enc |-> "hex", of |-> x]

\* base64 of the compressed bytes of a proof.
B64Encode(proof) == [enc |-> "b64", of |-> proof]

\* The k-th output of ChaCha20Rng::from_seed(shard_seed(shard_index)), k from
\* 1: a fixed function of the shard index and the position.
NextU32(shard_index, k) == ((shard_index * 37 + k * 101 + 11) * 7919) % 65536

\* gen_record on the (2k-1)-th and 2k-th outputs of the shard's generator.
gen_record(shard_index, k) ==
    Record(NextU32(shard_index, 2 * k - 1) % 121,
           70 + (NextU32(shard_index, 2 * k) % 111))

\* Records drawn from one generator shared by all tasks, whose position is
\* the number of shards persisted so far (used to mutate ShardRecords).
ShardRecords_SharedRng(shard_index) ==
    [k \in 1 .. DEFAULT_SHARD_SIZE |->
        gen_record(shard_index + Cardinality(DOMAIN shards), k)]

\* The records of a shard: DEFAULT_SHARD_SIZE calls of gen_record.
ShardRecords(shard_index) ==
    [k \in 1 .. DEFAULT_SHARD_SIZE |-> gen_record(shard_index, k)]

\* The loop's absorb made on a fresh sponge (used to mutate DatasetAbsorb).
DatasetAbsorb_Restart(sponge, shard_commitment) ==
    PoseidonAbsorb(PoseidonNew, <<shard_commitment>>)

\* dataset_sponge.absorb(&[shard_commitment])
DatasetAbsorb(sponge, shard_commitment) ==
    PoseidonAbsorb(sponge, <<shard_commitment>>)

\* dataset_sponge.squeeze_field_elements(1)[0]
DatasetSqueeze(sponge) == PoseidonSqueeze(sponge)

\* The self-check gate with the verdict dropped (used to mutate SelfCheckOk).
SelfCheckOk_Ignored(v) == TRUE

\* verify_shard_proof(..).map_err(|_| ApiError::Internal)?
SelfCheckOk(v) == v = "Ok"

NoProof == [setup |-> 0, inputs |-> <<>>, sat |-> FALSE]

\* A task whose loop starts at index 1 (used to mutate NewTask).
NewTask_FromOne(dataset_size) ==
    [pc |-> "start",
     dataset_size |-> dataset_size,
     num_shards |-> 0,
     shard_index |-> 1,
     dataset_sponge |-> PoseidonNew,
     keys |-> EmptyCell,
     proof |-> NoProof,
     shard_commitment |-> FrZero,
     stats |-> ZeroStats,
     checks |-> <<>>,
     dataset_commitment_hex |-> NULL,
     err |-> "none"]

\* The locals of a generation task when it is spawned.
NewTask(dataset_size) ==
    [pc |-> "start",
     dataset_size |-> dataset_size,
     num_shards |-> 0,
     shard_index |-> 0,
     dataset_sponge |-> PoseidonNew,
     keys |-> EmptyCell,
     proof |-> NoProof,
     shard_commitment |-> FrZero,
     stats |-> ZeroStats,
     checks |-> <<>>,
     dataset_commitment_hex |-> NULL,
     err |-> "none"]

Put(table, key, row) ==
    [k \in DOMAIN table \cup {key} |-> IF k = key THEN row ELSE table[k]]

\* The loop leaving one iteration early (used to mutate LoopPc).
LoopPc_OffByOne(shard_index, num_shards) ==
    IF shard_index + 1 < num_shards THEN "prove" ELSE "squeeze"

\* for shard_index in 0..num_shards: the next position of the loop.
LoopPc(shard_index, num_shards) ==
    IF shard_index < num_shards THEN "prove" ELSE "squeeze"

\* An Err that ends the loop as if it were complete (used to mutate Fail).
Fail_Swallowed(t, e) == [t EXCEPT !.pc = "squeeze"]

\* The inner function returns Err: its locals are dropped.
Fail(t, e) ==
    [NewTask(t.dataset_size) EXCEPT !.pc = "fail", !.err = e, !.checks = t.checks]

\* The end of the task running the error path once more (used to mutate
\* Done).
Done_ThenFail(t) ==
    [NewTask(t.dataset_size) EXCEPT !.pc = IF t.err = "again" THEN "done" ELSE "fail",
                                    !.err = "again", !.checks = t.checks]

\* The task ends: its locals are dropped.
Done(t) ==
    [NewTask(t.dataset_size) EXCEPT !.pc = "done", !.err = t.err, !.checks = t.checks]

InitPipe ==
    /\ IdleZk
    /\ probe = IdleProbe
    /\ agg = IdleAgg
    /\ gadget = IdleGadget
    /\ IdlePipe

\* The size check rejecting a dataset of no record (used to mutate
\* MultipleOfShardSize).
MultipleOfShardSize_NonZero(dataset_size) ==
    dataset_size # 0 /\ dataset_size % DEFAULT_SHARD_SIZE = 0

\* dataset_size % (DEFAULT_SHARD_SIZE as u64) == 0
MultipleOfShardSize(dataset_size) == dataset_size % DEFAULT_SHARD_SIZE = 0

\* POST /api/v1/datasets; the answer is kept with the dataset_size of its
\* request.
create_dataset(dataset_size, dbOk) ==
    /\ response = NoResult
    /\ Cardinality(DOMAIN tasks) < MaxDatasets
    /\ IF ~MultipleOfShardSize(dataset_size)
       THEN /\ response' = [op |-> "create_dataset", status |-> "BadRequest", id |-> 0,
                            dataset_size |-> dataset_size]
            /\ UNCHANGED <<datasets, shards, tasks, keys>>
       ELSE LET dataset_id == Cardinality(DOMAIN tasks) + 1
            IN IF ~dbOk
               THEN /\ response' = [op |-> "create_dataset", status |-> "Internal", id |-> 0,
                                    dataset_size |-> dataset_size]
                    /\ UNCHANGED <<datasets, shards, tasks, keys>>
               ELSE /\ datasets' = Put(datasets, dataset_id,
                                       [dataset_size |-> dataset_size,
                                        shard_size |-> DEFAULT_SHARD_SIZE,
                                        num_buckets |-> NUM_BUCKETS,
                                        status |-> "generating",
                                        dataset_commitment_hex |-> NULL,
                                        error |-> NULL])
                    /\ tasks' = Put(tasks, dataset_id, NewTask(dataset_size))
                    /\ response' = [op |-> "create_dataset", status |-> "Ok", id |-> dataset_id,
                                    dataset_size |-> dataset_size]
                    /\ UNCHANGED <<shards, keys>>
    /\ UNCHANGED zkVars
    /\ UNCHANGED <<probe, agg, disk, proc, gadget>>

\* A step of a background task; it answers no request.  The answer of a
\* handler is handed to its client (Respond) before the server's next step.
TaskStep(d, t) ==
    /\ response = NoResult
    /\ tasks' = [tasks EXCEPT ![d] = t]
    /\ response' = NoResult
    /\ UNCHANGED zkVars
    /\ UNCHANGED <<probe, agg, disk, proc, gadget>>

\* generate_dataset_and_proofs_inner: the size check and num_shards.
GenStart(d) ==
    /\ response = NoResult
    /\ d \in DOMAIN tasks
    /\ tasks[d].pc = "start"
    /\ LET t == tasks[d]
       IN IF t.dataset_size % DEFAULT_SHARD_SIZE # 0
          THEN TaskStep(d, Fail(t, "BadRequest"))
          ELSE TaskStep(d, [t EXCEPT !.pc = "keys",
                                     !.num_shards = t.dataset_size \div DEFAULT_SHARD_SIZE])
    /\ UNCHANGED <<datasets, shards, keys>>

\* state.ensure_keys(): the cell's value, or the first successful
\* initialization (load from disk or setup); a failed one leaves the cell
\* empty.
EnsureKeys(d, initOk) ==
    /\ response = NoResult
    /\ d \in DOMAIN tasks
    /\ tasks[d].pc = "keys"
    /\ LET t == tasks[d]
           made == setup_keys(1)
       IN IF keys.set
          THEN /\ TaskStep(d, [t EXCEPT !.keys = keys,
                                        !.pc = LoopPc(t.shard_index, t.num_shards)])
               /\ UNCHANGED keys
          ELSE IF initOk /\ made.kind = "Ok"
          THEN /\ keys' = [set |-> TRUE, pk |-> made.pk, vk |-> made.vk]
               /\ TaskStep(d, [t EXCEPT !.keys = keys',
                                        !.pc = LoopPc(t.shard_index, t.num_shards)])
          ELSE /\ TaskStep(d, Fail(t, "Internal"))
               /\ UNCHANGED keys
    /\ UNCHANGED <<datasets, shards>>

\* The blocking closure up to prove_shard: the shard's records, and the proof
\* of the library unless the library fails.
ProveStep(d, libOk, build) ==
    /\ response = NoResult
    /\ d \in DOMAIN tasks
    /\ tasks[d].pc = "prove"
    /\ LET t == tasks[d]
           recs == ShardRecords(t.shard_index)
           res == IF libOk THEN prove_shard(t.keys.pk, recs, build)
                  ELSE [kind |-> "Ark", msg |-> "fault"]
       IN IF res.kind = "Ok"
          THEN TaskStep(d, [t EXCEPT !.pc = "verify",
                                     !.proof = res.proof,
                                     !.shard_commitment = res.commitment,
                                     !.stats = res.stats])
          ELSE TaskStep(d, Fail(t, "Internal"))
    /\ UNCHANGED <<datasets, shards, keys>>

\* The rest of the blocking closure: the self-check, then the encodings.
\* The verdict is that of verify_shard_proof, or VerificationFailed when the
\* verifier rejects (libOk false).
VerifyStep(d, libOk) ==
    /\ response = NoResult
    /\ d \in DOMAIN tasks
    /\ tasks[d].pc = "verify"
    /\ LET t == tasks[d]
           v == IF libOk
                THEN verify_shard_proof(t.keys.vk, t.proof, t.shard_commitment, t.stats)
                ELSE "VerificationFailed"
           u == [t EXCEPT !.checks = Append(t.checks, v)]
       IN IF SelfCheckOk(v)
          THEN TaskStep(d, [u EXCEPT !.pc = "absorb"])
          ELSE TaskStep(d, Fail(u, "Internal"))
    /\ UNCHANGED <<datasets, shards, keys>>

\* dataset_sponge.absorb(&[shard_commitment])
AbsorbStep(d) ==
    /\ response = NoResult
    /\ d \in DOMAIN tasks
    /\ tasks[d].pc = "absorb"
    /\ LET t == tasks[d]
       IN TaskStep(d, [t EXCEPT !.pc = "insert",
                                !.dataset_sponge = DatasetAbsorb(t.dataset_sponge,
                                                                 t.shard_commitment)])
    /\ UNCHANGED <<datasets, shards, keys>>

\* db::insert_shard(.., true): INSERT OR REPLACE, then the next iteration.
InsertStep(d, dbOk) ==
    /\ response = NoResult
    /\ d \in DOMAIN tasks
    /\ tasks[d].pc = "insert"
    /\ LET t == tasks[d]
       IN IF dbOk
          THEN /\ shards' = Put(shards, <<d, t.shard_index>>,
                                [shard_commitment_hex |-> HexEncode(t.shard_commitment),
                                 stats |-> t.stats,
                                 proof_b64 |-> B64Encode(t.proof),
                                 verified |-> TRUE])
               /\ TaskStep(d, [t EXCEPT !.shard_index = t.shard_index + 1,
                                        !.pc = LoopPc(t.shard_index + 1, t.num_shards),
                                        !.proof = NoProof,
                                        !.shard_commitment = FrZero,
                                        !.stats = ZeroStats])
          ELSE /\ TaskStep(d, Fail(t, "Internal"))
               /\ UNCHANGED shards
    /\ UNCHANGED <<datasets, keys>>

\* The dataset commitment: squeeze after the loop, hex-encode.
SqueezeStep(d) ==
    /\ response = NoResult
    /\ d \in DOMAIN tasks
    /\ tasks[d].pc = "squeeze"
    /\ LET t == tasks[d]
       IN TaskStep(d, [t EXCEPT !.pc = "ready",
                                !.dataset_commitment_hex =
                                    HexEncode(DatasetSqueeze(t.dataset_sponge))])
    /\ UNCHANGED <<datasets, shards, keys>>

\* db::set_dataset_ready
ReadyStep(d, dbOk) ==
    /\ response = NoResult
    /\ d \in DOMAIN tasks
    /\ tasks[d].pc = "ready"
    /\ LET t == tasks[d]
       IN IF dbOk
          THEN /\ datasets' = [datasets EXCEPT ![d].status = "ready",
                                               ![d].dataset_commitment_hex = t.dataset_commitment_hex,
                                               ![d].error = NULL]
               /\ TaskStep(d, Done(t))
          ELSE /\ TaskStep(d, Fail(t, "Internal"))
               /\ UNCHANGED datasets
    /\ UNCHANGED <<shards, keys>>

\* generate_dataset_and_proofs: on Err, db::set_dataset_failed, its own
\* result dropped.
FailStep(d, dbOk) ==
    /\ response = NoResult
    /\ d \in DOMAIN tasks
    /\ tasks[d].pc = "fail"
    /\ LET t == tasks[d]
       IN /\ IF dbOk
             THEN datasets' = [datasets EXCEPT ![d].status = "failed",
                                               ![d].error = [kind |-> t.err]]
             ELSE UNCHANGED datasets
          /\ TaskStep(d, Done(t))
    /\ UNCHANGED <<shards, keys>>

\* The answer of a handler leaves the server.
Respond ==
    /\ response # NoResult
    /\ response' = NoResult
    /\ UNCHANGED <<datasets, shards, tasks, keys>>
    /\ UNCHANGED zkVars
    /\ UNCHANGED <<probe, agg, disk, proc, gadget>>

Next ==
    \/ \E dataset_size \in DatasetSizes, dbOk \in BOOLEAN : create_dataset(dataset_size, dbOk)
    \/ \E d \in DatasetIds : GenStart(d)
    \/ \E d \in DatasetIds, initOk \in BOOLEAN : EnsureKeys(d, initOk)
    \/ \E d \in DatasetIds, libOk \in BOOLEAN, build \in Builds : ProveStep(d, libOk, build)
    \/ \E d \in DatasetIds, libOk \in BOOLEAN : VerifyStep(d, libOk)
    \/ \E d \in DatasetIds : AbsorbStep(d)
    \/ \E d \in DatasetIds, dbOk \in BOOLEAN : InsertStep(d, dbOk)
    \/ \E d \in DatasetIds : SqueezeStep(d)
    \/ \E d \in DatasetIds, dbOk \in BOOLEAN : ReadyStep(d, dbOk)
    \/ \E d \in DatasetIds, dbOk \in BOOLEAN : FailStep(d, dbOk)
    \/ Respond

Spec == InitPipe /\ [][Next]_vars

\* Two datasets of one size have been created, in status generating, and
\* their tasks spawned; the tasks then run in any interleaving.
PairIds == {1, 2}

InitPair ==
    /\ IdleZk
    /\ probe = IdleProbe
    /\ agg = IdleAgg
    /\ gadget = IdleGadget
    /\ keys = EmptyCell
    /\ response = NoResult
    /\ disk = EmptyDisk
    /\ proc = NewProc(0, 0)
    /\ shards = EmptyTable
    /\ \E dataset_size \in { k * DEFAULT_SHARD_SIZE : k \in 0 .. MaxShards } :
          /\ datasets = [d \in PairIds |->
                            [dataset_size |-> dataset_size,
                             shard_size |-> DEFAULT_SHARD_SIZE,
                             num_buckets |-> NUM_BUCKETS,
                             status |-> "generating",
                             dataset_commitment_hex |-> NULL,
                             error |-> NULL]]
          /\ tasks = [d \in PairIds |-> NewTask(dataset_size)]

\* Every step of the task of dataset d, whatever the faults it meets.
TaskRuns(d) ==
    \/ GenStart(d)
    \/ \E initOk \in BOOLEAN : EnsureKeys(d, initOk)
    \/ \E libOk \in BOOLEAN, build \in Builds : ProveStep(d, libOk, build)
    \/ \E libOk \in BOOLEAN : VerifyStep(d, libOk)
    \/ AbsorbStep(d)
    \/ \E dbOk \in BOOLEAN : InsertStep(d, dbOk)
    \/ SqueezeStep(d)
    \/ \E dbOk \in BOOLEAN : ReadyStep(d, dbOk)
    \/ \E dbOk \in BOOLEAN : FailStep(d, dbOk)

NextPair == \E d \in PairIds : TaskRuns(d)

SpecPair == InitPair /\ [][NextPair]_vars

\* The runtime runs every spawned task until it ends, and every answer
\* leaves the server.
SpecLive ==
    /\ InitPipe
    /\ [][Next]_vars
    /\ \A d \in DatasetIds : SF_vars(TaskRuns(d))
    /\ WF_vars(Respond)

-----------------------------------------------------------------------------
(* The read side of the API over the store the pipeline fills.  response is *)
(* the answer of the handler that made the last step, with the row the      *)
(* handler wrote to the write-only queries table.                           *)

Fields == {"blood_glucose", "blood_glucose_mg_dl", "age"}

Metrics == {"count", "sum", "mean"}

\* The age ranges a request may carry: the configured ones and one that
\* straddles two buckets.
AgeRanges == { AGE_BUCKETS[b] : b \in Buckets } \cup { <<18, 40>> }

\* The query requests and whether the store answers: every range, every
\* metric and every field name, and one request the store fails on.
QueryCalls ==
    { [field |-> "blood_glucose_mg_dl", age_range |-> r, metric |-> "mean", dbOk |-> TRUE] :
        r \in AgeRanges }
    \cup { [field |-> "blood_glucose_mg_dl", age_range |-> AGE_BUCKETS[2], metric |-> m,
             dbOk |-> TRUE] : m \in Metrics }
    \cup { [field |-> f, age_range |-> AGE_BUCKETS[2], metric |-> "mean", dbOk |-> TRUE] :
             f \in Fields }
    \cup { [field |-> "blood_glucose_mg_dl", age_range |-> AGE_BUCKETS[2], metric |-> "mean",
             dbOk |-> FALSE] }

RECURSIVE RangeScan(_, _)
RangeScan(range, i) ==
    IF i >= NUM_BUCKETS THEN [kind |-> "None"]
    ELSE IF range[1] = AGE_BUCKETS[i][1] /\ range[2] = AGE_BUCKETS[i][2]
    THEN [kind |-> "Some", value |-> i]
    ELSE RangeScan(range, i + 1)

bucket_for_age_range(range) == RangeScan(range, 0)

\* SELECT ... FROM shards WHERE dataset_id = ?
ShardRowsOf(dataset_id) == { k \in DOMAIN shards : k[1] = dataset_id }

\* The loop with sum and count exchanged (used to mutate AggregateLoop).
RECURSIVE AggregateLoop_Exchanged(_, _, _)
AggregateLoop_Exchanged(rows, bucket_index, acc) ==
    IF rows = {} THEN acc
    ELSE LET k == CHOOSE x \in rows : TRUE
         IN AggregateLoop_Exchanged(rows \ {k}, bucket_index,
                [sum |-> acc.sum + shards[k].stats.count_by_bucket[bucket_index],
                 count |-> acc.count + shards[k].stats.sum_glucose_by_bucket[bucket_index]])

RECURSIVE AggregateLoop(_, _, _)
AggregateLoop(rows, bucket_index, acc) ==
    IF rows = {} THEN acc
    ELSE LET k == CHOOSE x \in rows : TRUE
         IN AggregateLoop(rows \ {k}, bucket_index,
                [sum |-> acc.sum + shards[k].stats.sum_glucose_by_bucket[bucket_index],
                 count |-> acc.count + shards[k].stats.count_by_bucket[bucket_index]])

aggregate_for_bucket(dataset_id, bucket_index) ==
    IF bucket_index >= NUM_BUCKETS
    THEN [kind |-> "BadRequest"]
    ELSE [kind |-> "Ok"] @@
         AggregateLoop(ShardRowsOf(dataset_id), bucket_index, [sum |-> 0, count |-> 0])

\* SELECT COUNT(*) FROM shards WHERE dataset_id = ? AND verified = 1
count_shards_verified(dataset_id) ==
    Cardinality({ k \in ShardRowsOf(dataset_id) : shards[k].verified })

\* sum as f64 / count as f64, kept as the two operands.
Mean(metric, sum, count) ==
    IF metric = "mean" /\ count # 0 THEN [num |-> sum, den |-> count] ELSE NULL

Answer(op, status) == [op |-> op, status |-> status]

\* The gate letting a failed dataset through (used to mutate StatusReady).
StatusReady_NotGenerating(status) == status # "generating"

\* status == "ready"
StatusReady(status) == status = "ready"

\* The answer of create_query, with the query row it inserts.
QueryAnswer(dataset_id, field, age_range, metric, dbOk) ==
    LET found == bucket_for_age_range(age_range)
        bucket_index == found.value
    IN IF field # "blood_glucose" /\ field # "blood_glucose_mg_dl"
       THEN Answer("create_query", "BadRequest")
       ELSE IF found.kind = "None"
       THEN Answer("create_query", "BadRequest")
       ELSE IF ~dbOk
       THEN Answer("create_query", "Internal")
       ELSE IF dataset_id \notin DOMAIN datasets
       THEN Answer("create_query", "NotFound")
       ELSE IF ~StatusReady(datasets[dataset_id].status)
       THEN Answer("create_query", "Conflict")
       ELSE LET a == aggregate_for_bucket(dataset_id, bucket_index)
                mean == Mean(metric, a.sum, a.count)
                shards_total == datasets[dataset_id].dataset_size \div DEFAULT_SHARD_SIZE
                server_verified == count_shards_verified(dataset_id) = shards_total
            IN [op |-> "create_query",
                status |-> "Ok",
                dataset_id |-> dataset_id,
                bucket_index |-> bucket_index,
                bucket_range |-> AGE_BUCKETS[bucket_index],
                sum_glucose |-> a.sum,
                count |-> a.count,
                mean_glucose |-> mean,
                server_verified |-> server_verified,
                wrote |-> [dataset_id |-> dataset_id,
                           query_json |-> [metric |-> metric,
                                           bucket_index |-> bucket_index,
                                           field |-> "blood_glucose_mg_dl"],
                           result_json |-> [sum_glucose |-> a.sum,
                                            count |-> a.count,
                                            mean_glucose |-> mean],
                           verified |-> server_verified]]

\* POST /api/v1/queries
create_query(dataset_id, field, age_range, metric, dbOk) ==
    /\ response = NoResult
    /\ response' = QueryAnswer(dataset_id, field, age_range, metric, dbOk)
    /\ UNCHANGED <<datasets, shards, tasks, keys>>
    /\ UNCHANGED zkVars
    /\ UNCHANGED <<probe, agg, disk, proc, gadget>>

NextApi ==
    \/ \E dataset_size \in DatasetSizes, dbOk \in BOOLEAN : create_dataset(dataset_size, dbOk)
    \/ \E d \in DatasetIds : GenStart(d)
    \/ \E d \in DatasetIds, initOk \in BOOLEAN : EnsureKeys(d, initOk)
    \/ \E d \in DatasetIds, libOk \in BOOLEAN, build \in Builds : ProveStep(d, libOk, build)
    \/ \E d \in DatasetIds, libOk \in BOOLEAN : VerifyStep(d, libOk)
    \/ \E d \in DatasetIds : AbsorbStep(d)
    \/ \E d \in DatasetIds, dbOk \in BOOLEAN : InsertStep(d, dbOk)
    \/ \E d \in DatasetIds : SqueezeStep(d)
    \/ \E d \in DatasetIds, dbOk \in BOOLEAN : ReadyStep(d, dbOk)
    \/ \E d \in DatasetIds, dbOk \in BOOLEAN : FailStep(d, dbOk)
    \/ \E dataset_id \in DatasetIds, req \in QueryCalls :
          create_query(dataset_id, req.field, req.age_range, req.metric, req.dbOk)
    \/ Respond

SpecApi == InitPipe /\ [][NextApi]_vars

\* The requests of the gating harness: either name of the field, a field and
\* a range that are refused, and one request the store fails on.
GateCalls ==
    { [field |-> f, age_range |-> AGE_BUCKETS[0], metric |-> "mean", dbOk |-> TRUE] :
        f \in {"blood_glucose", "blood_glucose_mg_dl", "age"} }
    \cup { [field |-> "blood_glucose", age_range |-> <<18, 40>>, metric |-> "sum",
             dbOk |-> TRUE],
           [field |-> "blood_glucose", age_range |-> AGE_BUCKETS[0], metric |-> "count",
             dbOk |-> FALSE] }

NextGate ==
    \/ \E dataset_size \in DatasetSizes, dbOk \in BOOLEAN : create_dataset(dataset_size, dbOk)
    \/ \E d \in DatasetIds : TaskRuns(d)
    \/ \E dataset_id \in DatasetIds, req \in GateCalls :
          create_query(dataset_id, req.field, req.age_range, req.metric, req.dbOk)
    \/ Respond

SpecGate == InitPipe /\ [][NextGate]_vars

-----------------------------------------------------------------------------
(* GET /api/v1/datasets/:id/shards, over the same store *)

\* The listing requests and whether the store answers: with and without the
\* proofs, a page past the first shard, a limit above the cap, and one
\* request the store fails on.
ListCalls ==
    { [offset |-> 0, limit |-> 50, include_proof |-> p, dbOk |-> TRUE] : p \in BOOLEAN }
    \cup { [offset |-> 1, limit |-> 1, include_proof |-> TRUE, dbOk |-> TRUE],
           [offset |-> 0, limit |-> 600, include_proof |-> FALSE, dbOk |-> FALSE] }

\* ORDER BY shard_index
RECURSIVE OrderByIndex(_)
OrderByIndex(indices) ==
    IF indices = {} THEN <<>>
    ELSE LET least == CHOOSE i \in indices : \A j \in indices : i <= j
         IN <<least>> \o OrderByIndex(indices \ {least})

\* LIMIT ? OFFSET ?
Page(seq, offset, limit) ==
    [k \in 1 .. (IF Len(seq) - offset < 0 THEN 0
                 ELSE IF Len(seq) - offset < limit THEN Len(seq) - offset
                 ELSE limit) |-> seq[offset + k]]

\* An item carrying the records of its shard (used to mutate ShardListItem).
ShardListItem_WithRecords(dataset_id, shard_index, include_proof) ==
    [shard_index |-> shard_index,
     shard_commitment_hex |-> shards[<<dataset_id, shard_index>>].shard_commitment_hex,
     sum_glucose_by_bucket |-> shards[<<dataset_id, shard_index>>].stats.sum_glucose_by_bucket,
     count_by_bucket |-> shards[<<dataset_id, shard_index>>].stats.count_by_bucket,
     verified |-> shards[<<dataset_id, shard_index>>].verified,
     proof_b64 |-> NULL,
     records |-> ShardRecords(shard_index)]

\* One row of db::list_shards as the ShardListItem of the answer.
ShardListItem(dataset_id, shard_index, include_proof) ==
    LET row == shards[<<dataset_id, shard_index>>]
    IN [shard_index |-> shard_index,
        shard_commitment_hex |-> row.shard_commitment_hex,
        sum_glucose_by_bucket |-> row.stats.sum_glucose_by_bucket,
        count_by_bucket |-> row.stats.count_by_bucket,
        verified |-> row.verified,
        proof_b64 |-> IF include_proof THEN row.proof_b64 ELSE NULL]

list_shards(dataset_id, offset, limit, include_proof, dbOk) ==
    /\ response = NoResult
    /\ LET capped == IF limit < 500 THEN limit ELSE 500
           indices == OrderByIndex({ k[2] : k \in ShardRowsOf(dataset_id) })
           rows == Page(indices, offset, capped)
       IN response' =
             IF ~dbOk
             THEN Answer("list_shards", "Internal")
             ELSE IF dataset_id \notin DOMAIN datasets
             THEN Answer("list_shards", "NotFound")
             ELSE [op |-> "list_shards",
                   status |-> "Ok",
                   dataset_id |-> dataset_id,
                   offset |-> offset,
                   limit |-> capped,
                   shards_total |-> datasets[dataset_id].dataset_size \div DEFAULT_SHARD_SIZE,
                   shards |-> [k \in 1 .. Len(rows) |->
                                 ShardListItem(dataset_id, rows[k], include_proof)]]
    /\ UNCHANGED <<datasets, shards, tasks, keys>>
    /\ UNCHANGED zkVars
    /\ UNCHANGED <<probe, agg, disk, proc, gadget>>

\* The query of the listing harness.
ListQuery ==
    [field |-> "blood_glucose_mg_dl", age_range |-> AGE_BUCKETS[2], metric |-> "mean",
     dbOk |-> TRUE]

NextList ==
    \/ \E dataset_size \in DatasetSizes, dbOk \in BOOLEAN : create_dataset(dataset_size, dbOk)
    \/ \E d \in DatasetIds : GenStart(d)
    \/ \E d \in DatasetIds, initOk \in BOOLEAN : EnsureKeys(d, initOk)
    \/ \E d \in DatasetIds, libOk \in BOOLEAN, build \in Builds : ProveStep(d, libOk, build)
    \/ \E d \in DatasetIds, libOk \in BOOLEAN : VerifyStep(d, libOk)
    \/ \E d \in DatasetIds : AbsorbStep(d)
    \/ \E d \in DatasetIds, dbOk \in BOOLEAN : InsertStep(d, dbOk)
    \/ \E d \in DatasetIds : SqueezeStep(d)
    \/ \E d \in DatasetIds, dbOk \in BOOLEAN : ReadyStep(d, dbOk)
    \/ \E d \in DatasetIds, dbOk \in BOOLEAN : FailStep(d, dbOk)
    \/ \E dataset_id \in DatasetIds :
          create_query(dataset_id, ListQuery.field, ListQuery.age_range, ListQuery.metric,
                       ListQuery.dbOk)
    \/ \E dataset_id \in DatasetIds, req \in ListCalls :
          list_shards(dataset_id, req.offset, req.limit, req.include_proof, req.dbOk)
    \/ Respond

SpecList == InitPipe /\ [][NextList]_vars

-----------------------------------------------------------------------------
(* GET /api/v1/datasets/:id, over the same store *)

\* SELECT COUNT(*) FROM shards WHERE dataset_id = ?
count_shards_done(dataset_id) == Cardinality(ShardRowsOf(dataset_id))

\* The row is read, then the shards are counted; the model makes the two
\* reads in one step.
get_dataset(dataset_id, dbOk) ==
    /\ response = NoResult
    /\ response' =
          IF ~dbOk
          THEN Answer("get_dataset", "Internal")
          ELSE IF dataset_id \notin DOMAIN datasets
          THEN Answer("get_dataset", "NotFound")
          ELSE LET row == datasets[dataset_id]
               IN [op |-> "get_dataset",
                   status |-> "Ok",
                   dataset_id |-> dataset_id,
                   dataset_size |-> row.dataset_size,
                   shard_size |-> DEFAULT_SHARD_SIZE,
                   num_buckets |-> NUM_BUCKETS,
                   dataset_status |-> IF row.status \in {"generating", "ready", "failed"}
                                      THEN row.status ELSE "failed",
                   shards_total |-> row.dataset_size \div DEFAULT_SHARD_SIZE,
                   shards_done |-> count_shards_done(dataset_id),
                   dataset_commitment_hex |-> row.dataset_commitment_hex,
                   error |-> row.error]
    /\ UNCHANGED <<datasets, shards, tasks, keys>>
    /\ UNCHANGED zkVars
    /\ UNCHANGED <<probe, agg, disk, proc, gadget>>

NextStatus ==
    \/ \E dataset_size \in DatasetSizes, dbOk \in BOOLEAN : create_dataset(dataset_size, dbOk)
    \/ \E d \in DatasetIds : GenStart(d)
    \/ \E d \in DatasetIds, initOk \in BOOLEAN : EnsureKeys(d, initOk)
    \/ \E d \in DatasetIds, libOk \in BOOLEAN, build \in Builds : ProveStep(d, libOk, build)
    \/ \E d \in DatasetIds, libOk \in BOOLEAN : VerifyStep(d, libOk)
    \/ \E d \in DatasetIds : AbsorbStep(d)
    \/ \E d \in DatasetIds, dbOk \in BOOLEAN : InsertStep(d, dbOk)
    \/ \E d \in DatasetIds : SqueezeStep(d)
    \/ \E d \in DatasetIds, dbOk \in BOOLEAN : ReadyStep(d, dbOk)
    \/ \E d \in DatasetIds, dbOk \in BOOLEAN : FailStep(d, dbOk)
    \/ \E dataset_id \in DatasetIds, dbOk \in BOOLEAN : get_dataset(dataset_id, dbOk)
    \/ Respond

SpecStatus == InitPipe /\ [][NextStatus]_vars

-----------------------------------------------------------------------------
(* The verification endpoint.  It reads no state of the server: each request *)
(* is decoded and verified on its own.  A string is what it encodes; bytes   *)
(* that are the canonical serialization of a value are that value.           *)

JunkBytes == [kind |-> "junk"]

\* A string that is not in the alphabet of the encoding.
BadText == [enc |-> "text", of |-> "!"]

\* base64 STANDARD .decode
B64Decode(s) ==
    IF s.enc = "b64" THEN [kind |-> "Ok", bytes |-> s.of] ELSE [kind |-> "Err"]

\* hex::decode
HexDecode(s) ==
    IF s.enc = "hex" THEN [kind |-> "Ok", bytes |-> s.of] ELSE [kind |-> "Err"]

\* A decoder that falls back to the server's key (used to mutate deserialize_vk).
deserialize_vk_Lenient(bytes) ==
    IF DOMAIN bytes = {"setup"} THEN [kind |-> "Ok", value |-> bytes]
    ELSE [kind |-> "Ok", value |-> HarnessKeys.vk]

\* VerifyingKey::deserialize_compressed
deserialize_vk(bytes) ==
    IF DOMAIN bytes = {"setup"} THEN [kind |-> "Ok", value |-> bytes]
    ELSE [kind |-> "Err"]

\* Proof::deserialize_compressed
deserialize_proof(bytes) ==
    IF DOMAIN bytes = {"setup", "inputs", "sat"} THEN [kind |-> "Ok", value |-> bytes]
    ELSE [kind |-> "Err"]

\* Fr::deserialize_compressed
deserialize_fr(bytes) ==
    IF DOMAIN bytes = {"k", "n", "pre"} THEN [kind |-> "Ok", value |-> bytes]
    ELSE [kind |-> "Err"]

BadRequest(op, msg) == [op |-> op, status |-> "BadRequest", msg |-> msg]

\* POST /api/v1/verify/shard; the answer is kept with its request.
verify_shard(req) ==
    /\ response = NoResult
    /\ LET vk_bytes == B64Decode(req.vk_b64)
           proof_bytes == B64Decode(req.proof_b64)
           vk == deserialize_vk(vk_bytes.bytes)
           proof == deserialize_proof(proof_bytes.bytes)
           commitment_bytes == HexDecode(req.public_shard_commitment_hex)
           commitment == deserialize_fr(commitment_bytes.bytes)
           stats == [sum_glucose_by_bucket |-> req.public_sum_glucose_by_bucket,
                     count_by_bucket |-> req.public_count_by_bucket]
           answer ==
               IF vk_bytes.kind # "Ok" THEN BadRequest("verify_shard", "invalid vk_b64")
               ELSE IF proof_bytes.kind # "Ok"
               THEN BadRequest("verify_shard", "invalid proof_b64")
               ELSE IF vk.kind # "Ok" THEN BadRequest("verify_shard", "invalid vk")
               ELSE IF proof.kind # "Ok" THEN BadRequest("verify_shard", "invalid proof")
               ELSE IF commitment_bytes.kind # "Ok"
               THEN BadRequest("verify_shard", "invalid commitment hex")
               ELSE IF commitment.kind # "Ok"
               THEN BadRequest("verify_shard", "invalid commitment bytes")
               ELSE [op |-> "verify_shard",
                     status |-> "Ok",
                     ok |-> verify_shard_proof(vk.value, proof.value,
                                               commitment.value, stats) = "Ok"]
       IN response' = answer @@ [request |-> req]
    /\ UNCHANGED <<datasets, shards, tasks, keys>>
    /\ UNCHANGED zkVars
    /\ UNCHANGED <<probe, agg, disk, proc, gadget>>

\* The proofs, keys and public inputs of two shards, as a client holds them.
ShardProof(shard_index) ==
    prove_shard(HarnessKeys.pk, ShardRecords(shard_index), "release")

VkStrings ==
    { B64Encode(HarnessKeys.vk), B64Encode(setup_keys(2).vk),
      B64Encode(JunkBytes), B64Encode(ShardProof(0).proof), BadText }

ProofStrings ==
    { B64Encode(ShardProof(0).proof), B64Encode(ShardProof(1).proof),
      B64Encode(JunkBytes), BadText }

CommitmentStrings ==
    { HexEncode(ShardProof(0).commitment), HexEncode(ShardProof(1).commitment),
      HexEncode(JunkBytes), BadText }

VerifyShardRequests ==
    { [vk_b64 |-> v, proof_b64 |-> p, public_shard_commitment_hex |-> c,
       public_sum_glucose_by_bucket |-> ShardProof(i).stats.sum_glucose_by_bucket,
       public_count_by_bucket |-> ShardProof(j).stats.count_by_bucket] :
        v \in VkStrings, p \in ProofStrings, c \in CommitmentStrings,
        i \in {0, 1}, j \in {0, 1} }

NextVerify ==
    \/ \E req \in VerifyShardRequests : verify_shard(req)
    \/ Respond

SpecVerify == InitPipe /\ [][NextVerify]_vars

-----------------------------------------------------------------------------
(* AppState::ensure_keys in detail: the initialize-once cell, the            *)
(* load-or-setup body with its file operations, and crashes of the process. *)

FileExists(f) == f.state # "absent"

InBody(c) == proc.callers[c].pc \in {"mkdir", "probe", "load", "setup", "write_pk", "write_vk"}

\* A permit that is always granted (used to mutate PermitFree).
PermitFree_Always(p) == TRUE

\* The semaphore of the cell has its one permit.
PermitFree(p) == p.permit = 0

KeysStep(c, caller, permit, completed, setups) ==
    /\ proc' = [proc EXCEPT !.callers[c] = caller,
                            !.permit = permit,
                            !.completed = completed,
                            !.setups = setups]
    /\ UNCHANGED <<datasets, shards, tasks, response>>
    /\ UNCHANGED zkVars
    /\ UNCHANGED <<probe, agg, gadget>>

\* .cloned() of the value in the cell.
CellValue(cell) == [kind |-> "Ok", pk |-> cell.pk, vk |-> cell.vk]

\* get_or_try_init: the value if the cell is initialized, else wait for the
\* permit.
Call(c) ==
    /\ proc.callers[c].pc = "idle"
    /\ LET me == proc.callers[c]
       IN IF keys.set
          THEN KeysStep(c, [me EXCEPT !.pc = "returned", !.result = CellValue(keys)],
                        proc.permit, proc.completed, proc.setups)
          ELSE KeysStep(c, [me EXCEPT !.pc = "wait"],
                        proc.permit, proc.completed, proc.setups)
    /\ UNCHANGED <<keys, disk>>

\* The waiter gets the permit and runs the body, or is woken by the cell
\* having been set and returns its value.
Acquire(c) ==
    /\ proc.callers[c].pc = "wait"
    /\ LET me == proc.callers[c]
       IN IF keys.set
          THEN KeysStep(c, [me EXCEPT !.pc = "returned", !.result = CellValue(keys)],
                        proc.permit, proc.completed, proc.setups)
          ELSE /\ PermitFree(proc)
               /\ KeysStep(c, [me EXCEPT !.pc = "mkdir"], c, proc.completed, proc.setups)
    /\ UNCHANGED <<keys, disk>>

\* The body returns Err: the permit is released, the cell stays empty.
BodyErr(c, me, faulted) ==
    KeysStep(c, [me EXCEPT !.pc = "returned",
                           !.result = [kind |-> "Err", error |-> "Internal"],
                           !.faulted = faulted],
             0, proc.completed, proc.setups)

\* The body returns Ok(ZkKeys): the cell is set and the caller gets a clone.
BodyOk(c, me, pk, vk) ==
    /\ keys' = [set |-> TRUE, pk |-> pk, vk |-> vk]
    /\ KeysStep(c, [me EXCEPT !.pc = "returned", !.result = CellValue(keys')],
                0, proc.completed + 1, proc.setups)

\* std::fs::create_dir_all(&keys_dir)
Mkdir(c, ioOk) ==
    /\ proc.callers[c].pc = "mkdir"
    /\ LET me == proc.callers[c]
       IN IF ioOk
          THEN KeysStep(c, [me EXCEPT !.pc = "probe"],
                        proc.permit, proc.completed, proc.setups)
          ELSE BodyErr(c, me, TRUE)
    /\ UNCHANGED <<keys, disk>>

\* if pk_path.exists() && vk_path.exists()
Probe(c) ==
    /\ proc.callers[c].pc = "probe"
    /\ LET me == proc.callers[c]
           both == FileExists(disk.pk) /\ FileExists(disk.vk)
           none == ~FileExists(disk.pk) /\ ~FileExists(disk.vk)
       IN KeysStep(c, [me EXCEPT !.pc = IF both THEN "load" ELSE "setup",
                                 !.found = IF both THEN "both"
                                           ELSE IF none THEN "none" ELSE "one"],
                   proc.permit, proc.completed, proc.setups)
    /\ UNCHANGED <<keys, disk>>

\* Read and deserialize both files; a file cut short does not deserialize.
Load(c, ioOk) ==
    /\ proc.callers[c].pc = "load"
    /\ LET me == proc.callers[c]
       IN IF ioOk /\ disk.pk.state = "whole" /\ disk.vk.state = "whole"
          THEN BodyOk(c, me, [setup |-> disk.pk.setup], [setup |-> disk.vk.setup])
          ELSE /\ BodyErr(c, me, ~ioOk)
               /\ UNCHANGED keys
    /\ UNCHANGED disk

\* setup_keys::<DEFAULT_SHARD_SIZE>(&mut OsRng), then serialize both keys.
Setup(c) ==
    /\ proc.callers[c].pc = "setup"
    /\ LET me == proc.callers[c]
           rng == proc.setups + 1
           made == setup_keys(rng)
       IN IF made.kind = "Ok"
          THEN KeysStep(c, [me EXCEPT !.pc = "write_pk", !.made = rng],
                        proc.permit, proc.completed, rng)
          ELSE BodyErr(c, me, TRUE)
    /\ UNCHANGED <<keys, disk>>

\* std::fs::write(&pk_path, pk_bytes); a failed write may leave a file cut
\* short.
WritePk(c, ioOk, torn) ==
    /\ proc.callers[c].pc = "write_pk"
    /\ LET me == proc.callers[c]
       IN IF ioOk
          THEN /\ disk' = [disk EXCEPT !.pk = WholeFile(me.made)]
               /\ KeysStep(c, [me EXCEPT !.pc = "write_vk"],
                           proc.permit, proc.completed, proc.setups)
          ELSE /\ disk' = IF torn THEN [disk EXCEPT !.pk = TornFile(me.made)] ELSE disk
               /\ BodyErr(c, me, TRUE)
    /\ UNCHANGED keys

\* std::fs::write(&vk_path, vk_bytes), then Ok(ZkKeys).
WriteVk(c, ioOk, torn) ==
    /\ proc.callers[c].pc = "write_vk"
    /\ LET me == proc.callers[c]
       IN IF ioOk
          THEN /\ disk' = [disk EXCEPT !.vk = WholeFile(me.made)]
               /\ BodyOk(c, me, [setup |-> me.made], [setup |-> me.made])
          ELSE /\ disk' = IF torn THEN [disk EXCEPT !.vk = TornFile(me.made)] ELSE disk
               /\ BodyErr(c, me, TRUE)
               /\ UNCHANGED keys

\* The process dies and is started again: the cell and the callers are gone,
\* the files stay; a write in progress may leave its file cut short.
Crash(torn) ==
    /\ proc.restarts < MaxRestarts
    /\ proc' = NewProc(proc.restarts + 1, proc.setups)
    /\ keys' = EmptyCell
    /\ disk' =
          IF torn /\ \E c \in Callers : proc.callers[c].pc = "write_pk"
          THEN [disk EXCEPT !.pk =
                   TornFile(proc.callers[CHOOSE c \in Callers : proc.callers[c].pc = "write_pk"].made)]
          ELSE IF torn /\ \E c \in Callers : proc.callers[c].pc = "write_vk"
          THEN [disk EXCEPT !.vk =
                   TornFile(proc.callers[CHOOSE c \in Callers : proc.callers[c].pc = "write_vk"].made)]
          ELSE disk
    /\ UNCHANGED <<datasets, shards, tasks, response>>
    /\ UNCHANGED zkVars
    /\ UNCHANGED <<probe, agg, gadget>>

NextKeys ==
    \/ \E c \in Callers : Call(c)
    \/ \E c \in Callers : Acquire(c)
    \/ \E c \in Callers, ioOk \in BOOLEAN : Mkdir(c, ioOk)
    \/ \E c \in Callers : Probe(c)
    \/ \E c \in Callers, ioOk \in BOOLEAN : Load(c, ioOk)
    \/ \E c \in Callers : Setup(c)
    \/ \E c \in Callers, ioOk \in BOOLEAN, torn \in BOOLEAN : WritePk(c, ioOk, torn)
    \/ \E c \in Callers, ioOk \in BOOLEAN, torn \in BOOLEAN : WriteVk(c, ioOk, torn)
    \/ \E torn \in BOOLEAN : Crash(torn)

SpecKeys == InitPipe /\ [][NextKeys]_vars

-----------------------------------------------------------------------------
(* Harness of the dataset commitment aggregator: the sponge of the generation *)
(* loop is run over a sequence of shard commitments and over a permutation  *)
(* of it.                                                                  *)

ShardCommitment(shard_index) ==
    compute_shard_commitment_and_stats(ShardRecords(shard_index)).commitment

CommitmentSamples == { FrZero, ShardCommitment(0), ShardCommitment(1) }

CommitmentLists == UNION { [1 .. n -> CommitmentSamples] : n \in 0 .. MaxShards }

Permuted(s) == { [i \in 1 .. Len(s) |-> s[p[i]]] : p \in Permutations(1 .. Len(s)) }

InitAgg ==
    /\ IdleZk
    /\ probe = IdleProbe
    /\ gadget = IdleGadget
    /\ IdlePipe
    /\ \E a \in CommitmentLists :
          \E b \in Permuted(a) :
              agg = [IdleAgg EXCEPT !.pc = "a", !.a = a, !.b = b]

\* One iteration of the loop over the sequence being aggregated.
AggAbsorb ==
    /\ agg.pc \in {"a", "b"}
    /\ LET seq == IF agg.pc = "a" THEN agg.a ELSE agg.b
       IN /\ agg.k < Len(seq)
          /\ agg' = [agg EXCEPT !.k = agg.k + 1,
                                !.sponge = DatasetAbsorb(agg.sponge, seq[agg.k + 1])]
    /\ UNCHANGED zkVars
    /\ UNCHANGED <<probe, gadget>>
    /\ UNCHANGED pipeVars

\* The squeeze after the loop; the second sequence starts on a new sponge.
AggSqueeze ==
    /\ agg.pc \in {"a", "b"}
    /\ LET seq == IF agg.pc = "a" THEN agg.a ELSE agg.b
       IN /\ agg.k = Len(seq)
          /\ agg' = IF agg.pc = "a"
                    THEN [agg EXCEPT !.pc = "b", !.k = 0, !.sponge = PoseidonNew,
                                     !.out_a = DatasetSqueeze(agg.sponge)]
                    ELSE [agg EXCEPT !.pc = "done", !.k = 0, !.sponge = PoseidonNew,
                                     !.out_b = DatasetSqueeze(agg.sponge)]
    /\ UNCHANGED zkVars
    /\ UNCHANGED <<probe, gadget>>
    /\ UNCHANGED pipeVars

NextAgg == AggAbsorb \/ AggSqueeze

SpecAgg == InitAgg /\ [][NextAgg]_vars

-----------------------------------------------------------------------------
(* Properties of the zk layer *)

MAX_AGE == 120

U16Max == 65535

InRange(recs) == \A k \in 1 .. Len(recs) : recs[k].age <= MAX_AGE

WellFormed == Len(records) = N /\ InRange(records)

ProveDone == zpc \in {"present", "synth", "verify", "done"}

\* C1: prove-verify round trip.  For a record list of length N with every age
\* in [0,120], prove_shard succeeds and returns the commitment and stats of
\* the native evaluator, the circuit is satisfied by them, and
\* verify_shard_proof on the returned proof, commitment and stats is Ok.
C1_RoundTrip ==
    WellFormed =>
        /\ ProveDone =>
              /\ proved.kind = "Ok"
              /\ Returned(proved) = Returned(native)
        /\ (zpc \in {"verify", "done"} /\ presented = Returned(proved)) =>
              /\ synth.result = "Ok"
              /\ synth.satisfied
        /\ (zpc = "done" /\ presented = Returned(proved)) => verdict.kind = "Ok"

C1_Witness ==
    /\ zpc = "done"
    /\ WellFormed
    /\ presented = Returned(proved)
    /\ verdict.kind = "Ok"
    /\ \E b \in Buckets : proved.stats.count_by_bucket[b] = N

\* C2: tampered public inputs are rejected.  When the public inputs handed to
\* the verifier differ from those prove_shard returned (one sum, one count or
\* the commitment replaced), the circuit's constraints are not satisfied by
\* the witness and verify_shard_proof returns VerificationFailed.
C2_TamperRejected ==
    (zpc \in {"verify", "done"} /\ proved.kind = "Ok" /\ presented # Returned(proved)) =>
        /\ ~synth.satisfied
        /\ zpc = "done" => verdict.kind = "VerificationFailed"

C2_Witness ==
    /\ zpc = "done"
    /\ WellFormed
    /\ presented.commitment = proved.commitment
    /\ presented.stats.sum_glucose_by_bucket = proved.stats.sum_glucose_by_bucket
    /\ presented.stats.count_by_bucket # proved.stats.count_by_bucket
    /\ verdict.kind = "VerificationFailed"

\* C3: exhaustiveness.  prove_shard on a list of length N that holds a record
\* with an age in 121..=255 fails with the unsatisfiable-synthesis error and
\* returns no proof.
C3_Exhaustiveness ==
    (ProveDone /\ Len(records) = N /\ ~InRange(records)) =>
        /\ proved.kind = "Ark"
        /\ proved.msg = "Unsatisfiable"

\* C5: public-input ordering.  The verifier's vector has length 1 + 2B, holds
\* the commitment at index 0, the sums at 1..B and the counts at B+1..2B, and
\* position k is the k-th variable the circuit allocates with new_input.
C5_InputOrdering ==
    zpc = "done" /\ verdict # NoResult =>
        LET v == verdict.public_inputs
        IN /\ Len(v) = 1 + 2 * NUM_BUCKETS
           /\ v[1] = presented.commitment
           /\ \A i \in Buckets :
                 /\ v[1 + i + 1] = FrFrom(presented.stats.sum_glucose_by_bucket[i])
                 /\ v[1 + NUM_BUCKETS + i + 1] = FrFrom(presented.stats.count_by_bucket[i])
           /\ \A k \in 1 .. Len(v) : v[k] = synth.inputs[k]
           /\ Len(synth.inputs) = Len(v)

C5_Witness ==
    /\ zpc = "done"
    /\ verdict # NoResult
    /\ verdict.kind = "Ok"
    /\ \E i \in Buckets :
          presented.stats.sum_glucose_by_bucket[i] # presented.stats.count_by_bucket[i]

\* C6: shard size mismatch.  For a list whose length differs from N, the
\* native evaluator and prove_shard return InvalidShardSize{expected: N, got:
\* len} and nothing else, and circuit synthesis fails with Unsatisfiable.
C6_SizeMismatch ==
    Len(records) # N =>
        LET e == [kind |-> "InvalidShardSize", expected |-> N, got |-> Len(records)]
        IN /\ zpc # "compute" => native = e
           /\ ProveDone => proved = e
           /\ zpc = "done" => synth.result = "Unsatisfiable"

C6_Witness ==
    /\ zpc = "done"
    /\ Len(records) = N + 1
    /\ proved.kind = "InvalidShardSize"
    /\ synth.result = "Unsatisfiable"

Sum(f) == f[0] + f[1] + f[2] + f[3] + f[4] + f[5]

\* C8: ShardStats invariants.  The stats of the native evaluator for a list of
\* length N have counts that add up to N, and every bucket's sum is at most
\* its count times the 16-bit value bound (hence at most N * 65535).
C8_StatsInvariants ==
    (zpc # "compute" /\ Len(records) = N) =>
        /\ native.kind = "Ok"
        /\ Sum(native.stats.count_by_bucket) = N
        /\ \A i \in Buckets :
              /\ native.stats.sum_glucose_by_bucket[i]
                    <= native.stats.count_by_bucket[i] * U16Max
              /\ native.stats.sum_glucose_by_bucket[i] <= N * U16Max

C8_Witness ==
    /\ zpc # "compute"
    /\ native.kind = "Ok"
    /\ \E i \in Buckets :
          /\ native.stats.count_by_bucket[i] = N
          /\ native.stats.sum_glucose_by_bucket[i] = N * U16Max

-----------------------------------------------------------------------------
(* Properties of the bucket table *)

\* C7: bucket partition.  Every age in 0..=120 lies in exactly one interval of
\* AGE_BUCKETS and exactly one membership boolean of the circuit is true for
\* it; for every age in 121..=255 no membership boolean is true and the
\* exhaustiveness constraint is violated.
C7_BucketPartition ==
    probe.pc = "done" =>
        LET hit == {b \in Buckets : probe.in_b[b]}
            tab == {b \in Buckets : AGE_BUCKETS[b][1] <= probe.age
                                     /\ probe.age <= AGE_BUCKETS[b][2]}
        IN /\ hit = tab
           /\ probe.age <= MAX_AGE => Cardinality(hit) = 1 /\ probe.exhaustive
           /\ probe.age > MAX_AGE => hit = {} /\ ~probe.exhaustive

C7_Witness ==
    /\ probe.pc = "done"
    /\ probe.age = MAX_AGE + 1
    /\ ~probe.exhaustive

\* The native stats of the records before the probed one.
PriorStats ==
    NativeLoop(probe.prior, 1, [sponge |-> PoseidonNew, stats |-> ZeroStats]).stats

\* C15: native out-of-range clamp.  For every age in 121..=255
\* bucket_for_age returns NUM_BUCKETS - 1 and the native evaluator adds the
\* record's value and count to the last bucket and to no other, whereas no
\* membership boolean of the circuit is true and the circuit's running sums
\* and counts stay what they were before the record.
C15_NativeClamp ==
    (probe.pc = "done" /\ probe.age > MAX_AGE) =>
        /\ probe.native_b = NUM_BUCKETS - 1
        /\ \A b \in Buckets :
              /\ probe.native_stats.sum_glucose_by_bucket[b] =
                    PriorStats.sum_glucose_by_bucket[b]
                        + (IF b = NUM_BUCKETS - 1 THEN probe.value ELSE 0)
              /\ probe.native_stats.count_by_bucket[b] =
                    PriorStats.count_by_bucket[b]
                        + (IF b = NUM_BUCKETS - 1 THEN 1 ELSE 0)
              /\ ~probe.in_b[b]
              /\ probe.sum_vars[b] = PriorStats.sum_glucose_by_bucket[b]
              /\ probe.count_vars[b] = PriorStats.count_by_bucket[b]

C15_Witness ==
    /\ probe.pc = "done"
    /\ probe.age = U8Max
    /\ probe.prior # <<>>
    /\ probe.native_stats.count_by_bucket[NUM_BUCKETS - 1] = 2
    /\ probe.count_vars[NUM_BUCKETS - 1] = 1

\* C17: native/circuit bucket agreement.  For every age in 0..=120 the index
\* returned by bucket_for_age is the index of the one bucket whose
\* membership boolean in_range_u8(age_bits, min_b, max_b) is true, and over
\* a record list with ages in [0,120] the circuit's running sum and count
\* of every bucket equal the native stats.
C17_BucketAgreement ==
    (probe.pc = "done" /\ probe.age <= MAX_AGE) =>
        /\ { b \in Buckets : probe.in_b[b] } = { probe.native_b }
        /\ \A b \in Buckets :
              /\ probe.sum_vars[b] = probe.native_stats.sum_glucose_by_bucket[b]
              /\ probe.count_vars[b] = probe.native_stats.count_by_bucket[b]

C17_Witness ==
    /\ probe.pc = "done"
    /\ probe.age = 64
    /\ probe.prior # <<>>
    /\ probe.native_b = 4
    /\ probe.sum_vars[4] = probe.value
    /\ \E b \in Buckets : b # 4 /\ probe.count_vars[b] = 1

-----------------------------------------------------------------------------
(* Properties of the dataset-generation pipeline *)

RECURSIVE Flatten(_)
Flatten(blocks) ==
    IF blocks = <<>> THEN <<>> ELSE Head(blocks) \o Flatten(Tail(blocks))

\* The elements a sponge has absorbed, in order.
SpongeElems(s) == Flatten(s.blocks) \o SubSeq(s.cur, 1, s.idx)

InLoop(t) == t.pc \in {"prove", "verify", "absorb", "insert"}

\* C4: fail-closed self-check.  Every shard row in the store and every shard
\* commitment in a dataset sponge belongs to a shard whose self-check returned
\* Ok; a task past the self-check of its current shard holds verdict Ok for
\* it; and a self-check that did not return Ok is the last one the task made:
\* the task is on its failure path, the shard has no row and the dataset is
\* never ready.
C4_FailClosed ==
    \A d \in DOMAIN tasks :
        LET t == tasks[d]
            absorbed == Len(SpongeElems(t.dataset_sponge))
        IN /\ \A i \in 0 .. (MaxShards + 1) :
                 <<d, i>> \in DOMAIN shards =>
                     /\ i + 1 <= Len(t.checks)
                     /\ t.checks[i + 1] = "Ok"
           /\ absorbed <= Len(t.checks)
           /\ \A j \in 1 .. absorbed : t.checks[j] = "Ok"
           /\ t.pc \in {"absorb", "insert"} =>
                 /\ Len(t.checks) = t.shard_index + 1
                 /\ t.checks[t.shard_index + 1] = "Ok"
           /\ \A j \in 1 .. Len(t.checks) :
                 t.checks[j] # "Ok" =>
                     /\ j = Len(t.checks)
                     /\ t.pc \in {"fail", "done"}
                     /\ <<d, j - 1>> \notin DOMAIN shards
                     /\ datasets[d].status # "ready"

C4_Witness ==
    \E d \in DOMAIN tasks :
        /\ Len(tasks[d].checks) = 2
        /\ tasks[d].checks[2] = "VerificationFailed"
        /\ datasets[d].status = "failed"
        /\ <<d, 0>> \in DOMAIN shards
        /\ <<d, 1>> \notin DOMAIN shards

\* The absorbs one record list calls for: the pair (age, value) of record k
\* in the k-th block of the sponge.
RecordBlocks(recs) ==
    [k \in 1 .. Len(recs) |-> <<FrFrom(recs[k].age), FrFrom(recs[k].blood_glucose_mg_dl)>>]

RECURSIVE AbsorbRows(_, _, _, _)
AbsorbRows(d, i, n, sponge) ==
    IF i >= n THEN sponge
    ELSE AbsorbRows(d, i + 1, n,
                    PoseidonAbsorb(sponge, <<shards[<<d, i>>].shard_commitment_hex.of>>))

\* C9: absorption ordering.  Within a shard the native evaluator and the
\* circuit absorb the pair of record k before that of record k+1, one absorb
\* per record.  Within a dataset the sponge holds the commitments of shards
\* 0..k-1 in ascending index order, each once, and the dataset commitment is
\* squeezed only when the commitments of all num_shards shards are in it.
C9_AbsorptionOrder ==
    \A d \in DOMAIN tasks :
        LET t == tasks[d]
            elems == SpongeElems(t.dataset_sponge)
            absorbed == IF t.pc = "insert" THEN t.shard_index + 1 ELSE t.shard_index
        IN /\ t.pc \in {"verify", "absorb", "insert"} =>
                 LET recs == ShardRecords(t.shard_index)
                 IN /\ t.shard_commitment.pre = RecordBlocks(recs)
                    /\ generate_constraints(
                           HealthShardCircuit(recs, t.shard_commitment, t.stats)
                       ).commitment.pre = RecordBlocks(recs)
           /\ (InLoop(t) \/ t.pc \in {"squeeze", "ready"}) =>
                 /\ Len(elems) = absorbed
                 /\ \A j \in 1 .. Len(elems) :
                       IF j = t.shard_index + 1
                       THEN elems[j] = t.shard_commitment
                       ELSE /\ <<d, j - 1>> \in DOMAIN shards
                            /\ HexEncode(elems[j]) = shards[<<d, j - 1>>].shard_commitment_hex
           /\ t.pc = "ready" =>
                 /\ Len(elems) = t.num_shards
                 /\ t.dataset_commitment_hex = HexEncode(PoseidonSqueeze(t.dataset_sponge))
           /\ datasets[d].status = "ready" =>
                 LET n == datasets[d].dataset_size \div DEFAULT_SHARD_SIZE
                 IN /\ \A i \in 0 .. (n - 1) : <<d, i>> \in DOMAIN shards
                    /\ datasets[d].dataset_commitment_hex =
                          HexEncode(PoseidonSqueeze(AbsorbRows(d, 0, n, PoseidonNew)))

C9_Witness ==
    \E d \in DOMAIN tasks :
        /\ datasets[d].status = "ready"
        /\ datasets[d].dataset_size = MaxShards * DEFAULT_SHARD_SIZE
        /\ shards[<<d, 0>>].shard_commitment_hex # shards[<<d, 1>>].shard_commitment_hex

-----------------------------------------------------------------------------
(* Properties of the dataset commitment aggregator *)

\* C10: dataset commitment determinism.  Aggregating the same sequence of
\* shard commitments twice yields the same dataset commitment, and
\* aggregating a permutation of it that differs in some position yields a
\* different one.
C10_Determinism ==
    agg.pc = "done" =>
        /\ agg.a = agg.b => agg.out_a = agg.out_b
        /\ agg.a # agg.b => agg.out_a # agg.out_b

C10_Witness ==
    /\ agg.pc = "done"
    /\ Len(agg.a) = 2
    /\ agg.a[1] # agg.a[2]
    /\ agg.b = <<agg.a[2], agg.a[1]>>
    /\ agg.out_a # agg.out_b

-----------------------------------------------------------------------------
(* Properties of the API *)

QueryOk == response # NoResult /\ response.op = "create_query" /\ response.status = "Ok"

RECURSIVE RowTotal(_, _, _, _)
RowTotal(d, i, b, counts) ==
    IF i < 0 THEN 0
    ELSE (IF <<d, i>> \in DOMAIN shards
          THEN IF counts THEN shards[<<d, i>>].stats.count_by_bucket[b]
               ELSE shards[<<d, i>>].stats.sum_glucose_by_bucket[b]
          ELSE 0)
         + RowTotal(d, i - 1, b, counts)

\* C11: query result and verdict.  An Ok answer of create_query is for a
\* dataset in status ready; its sum and count are the totals of
\* sum_glucose_by_bucket[b] and count_by_bucket[b] over the dataset's shard
\* rows, and server_verified is true exactly when every one of the
\* dataset_size / N shards has a row with verified set.
C11_QueryResult ==
    QueryOk =>
        LET d == response.dataset_id
            b == response.bucket_index
            n == datasets[d].dataset_size \div DEFAULT_SHARD_SIZE
        IN /\ datasets[d].status = "ready"
           /\ response.sum_glucose = RowTotal(d, MaxShards + 1, b, FALSE)
           /\ response.count = RowTotal(d, MaxShards + 1, b, TRUE)
           /\ response.server_verified <=>
                 \A i \in 0 .. (n - 1) :
                     /\ <<d, i>> \in DOMAIN shards
                     /\ shards[<<d, i>>].verified

C11_Witness ==
    /\ QueryOk
    /\ datasets[response.dataset_id].dataset_size = MaxShards * DEFAULT_SHARD_SIZE
    /\ response.count > 1
    /\ response.sum_glucose > response.count
    /\ response.server_verified

VerifyAnswered == response # NoResult /\ response.op = "verify_shard"

\* The request carries encodings of a key, a proof and a field element.
WellEncoded(req) ==
    /\ req.vk_b64 \in { B64Encode(HarnessKeys.vk), B64Encode(setup_keys(2).vk) }
    /\ req.proof_b64 \in { B64Encode(ShardProof(i).proof) : i \in {0, 1} }
    /\ req.public_shard_commitment_hex
          \in { HexEncode(ShardProof(i).commitment) : i \in {0, 1} }

\* C12: verifier surface error kinds.  verify_shard answers BadRequest
\* whenever the key, the proof or the commitment does not decode, and answers
\* with the verdict ok only for a request that decodes; ok is true exactly
\* when verify_shard_proof returns Ok for the decoded key, proof, commitment,
\* sums and counts.
C12_VerifierSurface ==
    VerifyAnswered =>
        LET req == response.request
        IN IF WellEncoded(req)
           THEN /\ response.status = "Ok"
                /\ response.ok <=>
                      verify_shard_proof(
                          req.vk_b64.of, req.proof_b64.of,
                          req.public_shard_commitment_hex.of,
                          [sum_glucose_by_bucket |-> req.public_sum_glucose_by_bucket,
                           count_by_bucket |-> req.public_count_by_bucket]) = "Ok"
           ELSE response.status = "BadRequest"

C12_Witness ==
    /\ VerifyAnswered
    /\ response.status = "Ok"
    /\ response.ok
    /\ response.request.proof_b64 = B64Encode(ShardProof(1).proof)

\* The shard indexes persisted for a dataset.
IndexesOf(d) == { k[2] : k \in { x \in DOMAIN shards : x[1] = d } }

\* C23: ready implies complete.  In every state where a dataset's status is
\* ready, the shard rows of the dataset are exactly those of the indexes
\* 0 .. dataset_size / N - 1, all with verified = true, the dataset
\* commitment is set and the error field is empty.
C23_ReadyComplete ==
    \A d \in DOMAIN datasets :
        datasets[d].status = "ready" =>
            /\ IndexesOf(d) = 0 .. ((datasets[d].dataset_size \div DEFAULT_SHARD_SIZE) - 1)
            /\ \A i \in IndexesOf(d) : shards[<<d, i>>].verified
            /\ datasets[d].dataset_commitment_hex # NULL
            /\ datasets[d].dataset_commitment_hex.enc = "hex"
            /\ datasets[d].error = NULL

\* A dataset of MaxShards shards is ready.
C23_Witness ==
    \E d \in DOMAIN datasets :
        /\ datasets[d].status = "ready"
        /\ datasets[d].dataset_size = MaxShards * DEFAULT_SHARD_SIZE
        /\ Cardinality(IndexesOf(d)) = MaxShards

\* C24: dataset lifecycle.  A dataset row is inserted with status
\* generating and is never removed; its status changes only from generating
\* to ready or from generating to failed, so ready and failed are terminal;
\* and no dataset commitment is stored while the status is generating or
\* failed.
C24_Lifecycle ==
    [][/\ DOMAIN datasets \subseteq DOMAIN datasets'
       /\ \A d \in DOMAIN datasets' :
             /\ d \notin DOMAIN datasets => datasets'[d].status = "generating"
             /\ d \in DOMAIN datasets =>
                   \/ datasets'[d].status = datasets[d].status
                   \/ /\ datasets[d].status = "generating"
                      /\ datasets'[d].status \in {"ready", "failed"}
             /\ datasets'[d].status \in {"generating", "failed"} =>
                   datasets'[d].dataset_commitment_hex = NULL
             /\ datasets'[d].status \in {"generating", "ready", "failed"}
      ]_vars

\* A dataset failed after some of its shards were persisted.
C24_Witness ==
    \E d \in DOMAIN datasets :
        /\ datasets[d].status = "failed"
        /\ datasets[d].dataset_commitment_hex = NULL
        /\ IndexesOf(d) # {}
        /\ tasks[d].pc = "done"

\* The shard indexes persisted for a dataset after the step.
IndexesAfter(d) == { k[2] : k \in { x \in DOMAIN shards' : x[1] = d } }

\* The shard indexes of a dataset are a prefix of those of its size.
PrefixOf(d, rows) ==
    /\ rows = 0 .. (Cardinality(rows) - 1)
    /\ Cardinality(rows) <= datasets[d].dataset_size \div DEFAULT_SHARD_SIZE

\* C26: progress counter bound.  In every state the persisted shard indexes
\* of a dataset are 0 .. k-1, without gap, with k at most dataset_size / N;
\* while the task is in its loop k is the index of the iteration; k grows
\* by one exactly at the step that completes an iteration and changes at no
\* other step; and get_dataset reports shards_done = k and shards_total =
\* dataset_size / N.
C26_ProgressCounter ==
    [][/\ \A d \in DOMAIN datasets :
             LET k == Cardinality(IndexesOf(d))
                 done == /\ tasks[d].pc = "insert"
                         /\ tasks'[d].pc \in {"prove", "squeeze"}
             IN /\ PrefixOf(d, IndexesOf(d))
                /\ tasks[d].pc \in {"prove", "verify", "absorb", "insert", "squeeze", "ready"}
                      => k = tasks[d].shard_index
                /\ Cardinality(IndexesAfter(d)) = IF done THEN k + 1 ELSE k
                /\ IndexesAfter(d) = 0 .. (Cardinality(IndexesAfter(d)) - 1)
                /\ Cardinality(IndexesAfter(d)) <= datasets[d].dataset_size \div DEFAULT_SHARD_SIZE
       /\ (response' # NoResult /\ response'.op = "get_dataset" /\ response'.status = "Ok") =>
             /\ response'.shards_done = Cardinality(IndexesAfter(response'.dataset_id))
             /\ response'.shards_total =
                   datasets'[response'.dataset_id].dataset_size \div DEFAULT_SHARD_SIZE
             /\ response'.shards_done <= response'.shards_total
      ]_vars

\* get_dataset reported two of three shards done.
C26_Witness ==
    /\ response # NoResult
    /\ response.op = "get_dataset"
    /\ response.status = "Ok"
    /\ response.shards_done = 2
    /\ response.shards_total = 3
    /\ response.dataset_status = "generating"

\* C25: generation terminates visibly.  Every dataset created by
\* create_dataset eventually has status ready or failed, whatever fails
\* during its generation.
C25_TerminatesVisibly ==
    \A d \in DatasetIds :
        (d \in DOMAIN datasets) ~>
            (d \in DOMAIN datasets /\ datasets[d].status \in {"ready", "failed"})

\* C22: reproducible, non-interfering generation.  For two datasets of the
\* same dataset_size generated in any interleaving, the persisted
\* commitment and stats of shard i are the same in both datasets, for every
\* i, and both datasets, once ready, have the same dataset commitment.
C22_Reproducible ==
    \A d \in DOMAIN datasets, e \in DOMAIN datasets :
        datasets[d].dataset_size = datasets[e].dataset_size =>
            /\ \A i \in IndexesOf(d) \cap IndexesOf(e) :
                  /\ shards[<<d, i>>].shard_commitment_hex = shards[<<e, i>>].shard_commitment_hex
                  /\ shards[<<d, i>>].stats = shards[<<e, i>>].stats
            /\ (datasets[d].status = "ready" /\ datasets[e].status = "ready") =>
                  datasets[d].dataset_commitment_hex = datasets[e].dataset_commitment_hex

\* Two datasets of MaxShards shards are both ready.
C22_Witness ==
    /\ DOMAIN datasets = PairIds
    /\ \A d \in PairIds :
          /\ datasets[d].status = "ready"
          /\ datasets[d].dataset_size = MaxShards * DEFAULT_SHARD_SIZE
          /\ Cardinality(IndexesOf(d)) = MaxShards
    /\ datasets[1].dataset_commitment_hex = datasets[2].dataset_commitment_hex

\* C21: query gating.  create_query, with a supported field, a configured
\* age range and a store that answers, returns NotFound for an unknown
\* dataset and Conflict for a dataset whose status is generating or failed;
\* in both cases it inserts no query row and leaves the store unchanged.
C21_QueryGating ==
    [][(response = NoResult /\ response' # NoResult /\ response'.op = "create_query") =>
          /\ \A dataset_id \in DatasetIds, req \in GateCalls :
                (/\ req.field \in {"blood_glucose", "blood_glucose_mg_dl"}
                 /\ \E b \in Buckets : AGE_BUCKETS[b] = req.age_range
                 /\ req.dbOk
                 /\ \/ dataset_id \notin DOMAIN datasets
                    \/ datasets[dataset_id].status \in {"generating", "failed"}
                 /\ response' = QueryAnswer(dataset_id, req.field, req.age_range,
                                            req.metric, req.dbOk))
                => /\ response'.status =
                         IF dataset_id \notin DOMAIN datasets THEN "NotFound" ELSE "Conflict"
                   /\ "wrote" \notin DOMAIN response'
          /\ response'.status \in {"NotFound", "Conflict"} =>
                /\ datasets' = datasets
                /\ shards' = shards
                /\ tasks' = tasks
      ]_vars

\* A query was refused for a dataset whose generation failed.
C21_Witness ==
    /\ response # NoResult
    /\ response.op = "create_query"
    /\ response.status = "Conflict"
    /\ DOMAIN datasets # {}
    /\ \A d \in DOMAIN datasets : datasets[d].status = "failed"

\* C20: dataset size validation.  create_dataset with a dataset_size that is
\* no multiple of the shard size answers BadRequest, inserts no dataset row
\* and spawns no generation task; with a multiple, 0 included, it inserts
\* exactly one row, in status generating, and spawns exactly one generation
\* task, for that row (unless the store fails the insert: then it answers
\* Internal, with no row and no task).
C20_SizeValidation ==
    [][(response = NoResult /\ response' # NoResult /\ response'.op = "create_dataset") =>
          LET size == response'.dataset_size
              id == response'.id
          IN /\ size % DEFAULT_SHARD_SIZE # 0 =>
                   /\ response'.status = "BadRequest"
                   /\ datasets' = datasets
                   /\ tasks' = tasks
             /\ size % DEFAULT_SHARD_SIZE = 0 =>
                   \/ /\ response'.status = "Ok"
                      /\ id \notin DOMAIN datasets
                      /\ id \notin DOMAIN tasks
                      /\ DOMAIN datasets' = DOMAIN datasets \cup {id}
                      /\ DOMAIN tasks' = DOMAIN tasks \cup {id}
                      /\ \A d \in DOMAIN datasets : datasets'[d] = datasets[d]
                      /\ \A d \in DOMAIN tasks : tasks'[d] = tasks[d]
                      /\ datasets'[id].status = "generating"
                      /\ datasets'[id].dataset_size = size
                      /\ tasks'[id].pc = "start"
                      /\ tasks'[id].dataset_size = size
                   \/ /\ response'.status = "Internal"
                      /\ datasets' = datasets
                      /\ tasks' = tasks
      ]_vars

\* A dataset of no record was accepted: its row is generating, its task
\* spawned.
C20_Witness ==
    /\ response # NoResult
    /\ response.op = "create_dataset"
    /\ response.status = "Ok"
    /\ response.dataset_size = 0
    /\ response.id \in DOMAIN datasets
    /\ datasets[response.id].status = "generating"
    /\ response.id \in DOMAIN tasks
    /\ tasks[response.id].pc = "start"

\* A hex string of a Poseidon digest.
IsCommitmentHex(x) ==
    /\ DOMAIN x = {"enc", "of"}
    /\ x.enc = "hex"
    /\ x.of.k = "poseidon"

\* Six sums or six counts.
IsBucketArray(x) == DOMAIN x = Buckets /\ \A b \in Buckets : x[b] \in Nat

\* A base64 string of a Groth16 proof, of the statement made of the public
\* inputs: the commitment, the sums and the counts.
IsProofB64(x, commitment_hex, stats) ==
    /\ DOMAIN x = {"enc", "of"}
    /\ x.enc = "b64"
    /\ DOMAIN x.of = {"setup", "inputs", "sat"}
    /\ x.of.inputs = shard_public_inputs_to_field_elems(commitment_hex.of, stats)

\* C16: record confidentiality.  Every shard row of the store and every item
\* of a shard listing consists of the shard index, the commitment, the
\* bucket sums and counts, the proof and the verified flag, and of nothing
\* else; the answer of a query consists of the totals of one bucket; no
\* field holds a record or a list of records.
C16_RecordConfidentiality ==
    /\ \A k \in DOMAIN shards :
          LET row == shards[k]
          IN /\ k[1] \in DatasetIds /\ k[2] \in Nat
             /\ DOMAIN row = {"shard_commitment_hex", "stats", "proof_b64", "verified"}
             /\ IsCommitmentHex(row.shard_commitment_hex)
             /\ DOMAIN row.stats = {"sum_glucose_by_bucket", "count_by_bucket"}
             /\ IsBucketArray(row.stats.sum_glucose_by_bucket)
             /\ IsBucketArray(row.stats.count_by_bucket)
             /\ IsProofB64(row.proof_b64, row.shard_commitment_hex, row.stats)
             /\ row.verified \in BOOLEAN
    /\ (response # NoResult /\ response.op = "list_shards" /\ response.status = "Ok") =>
          /\ DOMAIN response =
                {"op", "status", "dataset_id", "offset", "limit", "shards_total", "shards"}
          /\ \A k \in 1 .. Len(response.shards) :
                LET item == response.shards[k]
                    stats == [sum_glucose_by_bucket |-> item.sum_glucose_by_bucket,
                              count_by_bucket |-> item.count_by_bucket]
                IN /\ DOMAIN item = {"shard_index", "shard_commitment_hex",
                                     "sum_glucose_by_bucket", "count_by_bucket",
                                     "verified", "proof_b64"}
                   /\ item.shard_index \in Nat
                   /\ IsCommitmentHex(item.shard_commitment_hex)
                   /\ IsBucketArray(item.sum_glucose_by_bucket)
                   /\ IsBucketArray(item.count_by_bucket)
                   /\ item.verified \in BOOLEAN
                   /\ \/ item.proof_b64 = NULL
                      \/ IsProofB64(item.proof_b64, item.shard_commitment_hex, stats)
    /\ (response # NoResult /\ response.op = "create_query" /\ response.status = "Ok") =>
          /\ response.sum_glucose \in Nat
          /\ response.count \in Nat
          /\ DOMAIN response.wrote = {"dataset_id", "query_json", "result_json", "verified"}
          /\ DOMAIN response.wrote.result_json = {"sum_glucose", "count", "mean_glucose"}

\* A listing with the proofs returned two shards of a dataset.
C16_Witness ==
    /\ response # NoResult
    /\ response.op = "list_shards"
    /\ response.status = "Ok"
    /\ Len(response.shards) = 2
    /\ response.shards[2].proof_b64 # NULL
    /\ response.shards[2].shard_index = 1

-----------------------------------------------------------------------------
(* Properties of ensure_keys *)

\* C13: setup artifact on disk.  Whenever no load-or-setup body is running,
\* the proving-key file and the verifying-key file both exist or neither
\* does; and a body that finds the files in any state other than both whole,
\* and meets no I/O error itself, runs setup again and leaves both files
\* whole, of one setup.
C13_SetupArtifact ==
    /\ PermitFree(proc) => (FileExists(disk.pk) <=> FileExists(disk.vk))
    /\ \A c \in Callers :
          LET me == proc.callers[c]
          IN (me.pc = "returned" /\ me.found # "none" /\ ~me.faulted) =>
                /\ me.result.kind = "Ok"
                /\ disk.pk.state = "whole"
                /\ disk.vk.state = "whole"
                /\ disk.pk.setup = disk.vk.setup

-----------------------------------------------------------------------------
(* Properties of the gadgets *)

\* C18: comparator gadgets.  For every 8-bit value a, given as 8
\* little-endian bits, and every constant c in 0..=255, leq_const_u8 is true
\* iff a <= c and geq_const_u8 is true iff a >= c; with c = 0 geq_const_u8
\* returns the constant true and makes no call of leq_const_u8.
C18_Comparators ==
    gadget.pc = "compared" =>
        /\ gadget.leq <=> gadget.a <= gadget.c
        /\ gadget.geq <=> gadget.a >= gadget.c
        /\ gadget.c = 0 =>
              /\ gadget.geq
              /\ gadget.geq_path.constant
              /\ gadget.geq_path.leq_calls = <<>>
        /\ gadget.c > 0 => gadget.geq_path.leq_calls = <<gadget.c - 1>>

C18_Witness ==
    /\ gadget.pc = "compared"
    /\ gadget.a = U8Max
    /\ gadget.c = 0
    /\ gadget.geq
    /\ ~gadget.leq

\* The sum of bit_i * 2^i over the first n bits.
RECURSIVE SumBits(_, _)
SumBits(bits, n) ==
    IF n = 0 THEN 0
    ELSE SumBits(bits, n - 1) + (IF bits[n - 1] THEN 2 ^ (n - 1) ELSE 0)

\* C19: range gadgets.  bits_le_to_fp of a little-endian bit list is the sum
\* of bit_i * 2^i; constrain_u8 is satisfied exactly by the values below 2^8
\* and constrain_u16 exactly by the values below 2^16; each returns the low
\* 8, resp. 16, bits of the value, least significant first.
C19_RangeGadgets ==
    gadget.pc = "constrained" =>
        /\ gadget.fp8 = SumBits(gadget.u8.bits, U8Bits)
        /\ gadget.fp16 = SumBits(gadget.u16.bits, U16Bits)
        /\ gadget.u8.ok <=> gadget.v < 2 ^ U8Bits
        /\ gadget.u16.ok <=> gadget.v < 2 ^ U16Bits
        /\ DOMAIN gadget.u8.bits = 0 .. (U8Bits - 1)
        /\ DOMAIN gadget.u16.bits = 0 .. (U16Bits - 1)
        /\ gadget.fp8 = gadget.v % (2 ^ U8Bits)
        /\ gadget.fp16 = gadget.v % (2 ^ U16Bits)

C19_Witness ==
    /\ gadget.pc = "constrained"
    /\ gadget.v = 2 ^ U16Bits
    /\ ~gadget.u16.ok
    /\ ~gadget.u8.ok
    /\ gadget.fp16 = 0

====
